---- MODULE Spec2Model ----
(***************************************************************************)
(* Model of the AQUAVIEW data updater: scripts/update_data.py (the driver, *)
(* the per-category updaters, the NDBC feed parsers, the glider track      *)
(* subsampling) and scripts/update_stations.py (the station updater).      *)
(*                                                                         *)
(* Conventions.                                                            *)
(*  - Python None is the empty tuple <<>>, a present value v is <<v>>.     *)
(*  - A feed token is a string; int() and float() are computed from its    *)
(*    characters.                                                          *)
(*  - A float is an integer count of thousandths (98.9 is 98900); the      *)
(*    token vocabulary has at most three fraction digits.                  *)
(*  - A text is a sequence of lines (after strip().split("\n")), a line a  *)
(*    sequence of tokens (after split()).                                  *)
(*  - A Python dict is a function whose DOMAIN is its key set.             *)
(***************************************************************************)
EXTENDS Integers, Sequences, FiniteSets, TLC

VARIABLES
    pc,        \* control position of the running script
    files,     \* docs/data: file name -> content
    upstream,  \* the responses the upstream services give in this run
    requests,  \* secondary requests issued so far in this run
    result,    \* value computed by the function that ran last
    before     \* history: the files as they were when the run started

vars == <<pc, files, upstream, requests, result, before>>

None == <<>>
Some(v) == <<v>>
IsNone(o) == o = <<>>
Get(o) == o[1]

EmptyDict == [k \in {} |-> 0]

\* dict d with d[key] = val assigned
DictSet(d, key, val) ==
    [k \in DOMAIN d \cup {key} |-> IF k = key THEN val ELSE d[k]]

Min(a, b) == IF a < b THEN a ELSE b
Max(a, b) == IF a > b THEN a ELSE b

(***************************************************************************)
(* int() and float() on a token.                                           *)
(***************************************************************************)
DigitChars == {"0", "1", "2", "3", "4", "5", "6", "7", "8", "9"}

\* the i-th character of a string (1-based)
Ch(str, i) == SubSeq(str, i, i)

DigitVal(c) ==
    CASE c = "0" -> 0 [] c = "1" -> 1 [] c = "2" -> 2 [] c = "3" -> 3
      [] c = "4" -> 4 [] c = "5" -> 5 [] c = "6" -> 6 [] c = "7" -> 7
      [] c = "8" -> 8 [] c = "9" -> 9

RECURSIVE DigitsVal(_)
DigitsVal(ds) ==
    IF ds = "" THEN 0
    ELSE DigitsVal(SubSeq(ds, 1, Len(ds) - 1)) * 10 + DigitVal(Ch(ds, Len(ds)))

Unsigned(tok) ==
    IF tok # "" /\ Ch(tok, 1) \in {"-", "+"} THEN SubSeq(tok, 2, Len(tok)) ELSE tok

Sign(tok) == IF tok # "" /\ Ch(tok, 1) = "-" THEN -1 ELSE 1

\* int(tok): None stands for ValueError
ParseInt(tok) ==
    LET body == Unsigned(tok) IN
    IF body # "" /\ \A i \in 1..Len(body) : Ch(body, i) \in DigitChars
    THEN Some(Sign(tok) * DigitsVal(body))
    ELSE None

\* the fraction digits, cut or zero-padded to three
Frac3(fp) == SubSeq(fp \o "000", 1, 3)

\* float(tok) in thousandths: None stands for ValueError
ParseFloat(tok) ==
    LET body == Unsigned(tok)
        dots == {i \in 1..Len(body) : Ch(body, i) = "."}
        dot  == IF dots = {} THEN Len(body) + 1 ELSE CHOOSE i \in dots : TRUE
        ip   == SubSeq(body, 1, dot - 1)
        fp   == SubSeq(body, dot + 1, Len(body))
    IN
    IF /\ Cardinality(dots) <= 1
       /\ \A i \in 1..Len(body) : Ch(body, i) \in DigitChars \cup {"."}
       /\ Len(ip) + Len(fp) >= 1
    THEN Some(Sign(tok) * (DigitsVal(ip) * 1000 + DigitsVal(Frac3(fp))))
    ELSE None

(***************************************************************************)
(* datetime(yr, mo, dy, hr, mn): None stands for ValueError                *)
(***************************************************************************)
IsLeap(y) == (y % 4 = 0 /\ y % 100 # 0) \/ y % 400 = 0

DaysInMonth(y, m) ==
    IF m = 2 THEN (IF IsLeap(y) THEN 29 ELSE 28)
    ELSE IF m \in {4, 6, 9, 11} THEN 30 ELSE 31

MakeDatetime(yr, mo, dy, hr, mn) ==
    IF /\ yr \in 1..9999
       /\ mo \in 1..12
       /\ dy >= 1 /\ dy <= DaysInMonth(yr, mo)
       /\ hr \in 0..23
       /\ mn \in 0..59
    THEN Some(<<yr, mo, dy, hr, mn>>)
    ELSE None

(***************************************************************************)
(* Feed parsers of update_data.py                                          *)
(***************************************************************************)

\* col_map = {h: i for i, h in enumerate(headers)}: 0-based, last one wins
ColMap(headers) ==
    [h \in {headers[i] : i \in 1..Len(headers)} |->
        (CHOOSE i \in 1..Len(headers) :
            /\ headers[i] = h
            /\ \A j \in 1..Len(headers) : headers[j] = h => j <= i) - 1]

\* col_map.get(name, default)
ColGet(colMap, name, default) ==
    IF name \in DOMAIN colMap THEN colMap[name] ELSE default

\* parts[idx] with a 0-based index: None stands for IndexError
PartAt(parts, idx) ==
    IF idx >= 0 /\ idx < Len(parts) THEN Some(parts[idx + 1]) ELSE None

\* int(parts[idx]): None stands for ValueError or IndexError
IntAt(parts, idx) ==
    IF IsNone(PartAt(parts, idx)) THEN None ELSE ParseInt(Get(PartAt(parts, idx)))


\* the missing-value strings of get_val and get
Sentinels ==
    {"MM", "99.0", "999.0", "9999.0", "99.00", "999", "9999"}

OceanFields == {"do", "temp", "sal", "ph", "turb"}

\* get_val with the cutoff test written v > 99
GetValCutoffAbove(parts, colMap, colName) ==
    LET idx == ColGet(colMap, colName, -1) IN
    IF colName \notin DOMAIN colMap \/ idx >= Len(parts) THEN None
    ELSE LET valStr == parts[idx + 1]
             v == ParseFloat(valStr)
         IN IF valStr \in Sentinels THEN None
            ELSE IF IsNone(v) THEN None
            ELSE IF Get(v) > 99000 /\ colName \notin {"DEPTH"} THEN None
            ELSE v

\* get_val(col_name) of _parse_ocean_feed, for the row `parts`
GetVal(parts, colMap, colName) ==
    LET idx == ColGet(colMap, colName, -1) IN
    IF colName \notin DOMAIN colMap \/ idx >= Len(parts) THEN None
    ELSE LET valStr == parts[idx + 1]
             v == ParseFloat(valStr)
         IN IF valStr \in Sentinels THEN None
            ELSE IF IsNone(v) THEN None
            ELSE IF Get(v) >= 99000 /\ colName \notin {"DEPTH"} THEN None
            ELSE v

\* the date columns of a row: None when int() or the index fails (continue)
RowDate(parts, colMap) ==
    LET yr == IntAt(parts, ColGet(colMap, "#YY", ColGet(colMap, "YY", 0)))
        mo == IntAt(parts, ColGet(colMap, "MM", 1))
        dy == IntAt(parts, ColGet(colMap, "DD", 2))
        hr == IntAt(parts, ColGet(colMap, "hh", 3))
        mn == IntAt(parts, ColGet(colMap, "mm", 4))
    IN IF \E x \in {yr, mo, dy, hr, mn} : IsNone(x) THEN None
       ELSE Some(<<Get(yr), Get(mo), Get(dy), Get(hr), Get(mn)>>)

\* the column each ocean field is read from
OceanColumn(f) ==
    CASE f = "do" -> "O2PPM" [] f = "temp" -> "OTMP" [] f = "sal" -> "SAL"
      [] f = "ph" -> "PH" [] f = "turb" -> "TURB"

\* the row loop with every field overwritten by each later valid value
\* (last valid row wins), the behaviour the first-valid rule excludes
OceanRowLastWins(parts, colMap, st) ==
    IF Len(parts) < 5 THEN st
    ELSE LET d == RowDate(parts, colMap) IN
         IF IsNone(d) THEN st
         ELSE LET dt == Get(d)
                  ts == IF IsNone(st.timestamp)
                        THEN MakeDatetime(dt[1], dt[2], dt[3], dt[4], dt[5])
                        ELSE st.timestamp
                  rd == [f \in OceanFields |->
                            IF IsNone(GetVal(parts, colMap, OceanColumn(f)))
                            THEN st.readings[f]
                            ELSE GetVal(parts, colMap, OceanColumn(f))]
              IN [readings |-> rd, timestamp |-> ts,
                  stop |-> ~IsNone(rd["do"]) /\ ~IsNone(rd["temp"])]

\* one iteration of the row loop; st = [readings, timestamp, stop]
OceanRow(parts, colMap, st) ==
    IF Len(parts) < 5 THEN st
    ELSE LET d == RowDate(parts, colMap) IN
         IF IsNone(d) THEN st
         ELSE LET dt == Get(d)
                  ts == IF IsNone(st.timestamp)
                        THEN MakeDatetime(dt[1], dt[2], dt[3], dt[4], dt[5])
                        ELSE st.timestamp
                  rd == [f \in OceanFields |->
                            IF IsNone(st.readings[f])
                            THEN GetVal(parts, colMap, OceanColumn(f))
                            ELSE st.readings[f]]
              IN [readings |-> rd, timestamp |-> ts,
                  stop |-> ~IsNone(rd["do"]) /\ ~IsNone(rd["temp"])]

RECURSIVE OceanScan(_, _, _, _)
OceanScan(rows, colMap, k, st) ==
    IF k > Len(rows) THEN st
    ELSE LET st2 == OceanRow(rows[k], colMap, st) IN
         IF st2.stop THEN st2 ELSE OceanScan(rows, colMap, k + 1, st2)

\* lines[a:b] of a Python list (0-based, b exclusive)
Slice(s, a, b) == SubSeq(s, a + 1, Min(b, Len(s)))

\* the tail of _parse_ocean_feed: the dict built from the loop's final state
OceanResult(st) ==
    LET kept == {f \in OceanFields : ~IsNone(st.readings[f])}
        res == [k \in kept |-> Get(st.readings[k])]
        res2 == IF IsNone(st.timestamp) THEN res
                ELSE DictSet(res, "timestamp", Get(st.timestamp))
    IN IF DOMAIN res2 = {} THEN None ELSE Some(res2)

\* _parse_ocean_feed(text): None or a dict
ParseOceanFeed(text) ==
    IF IsNone(text) \/ Get(text) = <<>> THEN None
    ELSE IF Len(Get(text)) < 3 THEN None
    ELSE OceanResult(OceanScan(Slice(Get(text), 2, 50), ColMap(Get(text)[1]), 1,
                               [readings |-> [f \in OceanFields |-> None],
                                timestamp |-> None, stop |-> FALSE]))

\* get without the test against the missing-value strings
MetGetNoSentinels(parts, colMap, name) ==
    LET idx == ColGet(colMap, name, -1) IN
    IF name \notin DOMAIN colMap \/ idx >= Len(parts) THEN None
    ELSE LET v == ParseFloat(parts[idx + 1])
         IN IF IsNone(v) THEN None
            ELSE IF Get(v) < 999000 THEN v ELSE None

\* get(name) of _parse_ndbc_met_txt, for the row `parts`
MetGet(parts, colMap, name) ==
    LET idx == ColGet(colMap, name, -1) IN
    IF name \notin DOMAIN colMap \/ idx >= Len(parts) THEN None
    ELSE LET s == parts[idx + 1]
             v == ParseFloat(s)
         IN IF s \in Sentinels THEN None
            ELSE IF IsNone(v) THEN None
            ELSE IF Get(v) < 999000 THEN v ELSE None

\* the met fields in the order the loop body tries them, with their columns
MetOrder == <<"wspd", "wdir", "wvht", "dpd", "pres", "atmp", "wtmp">>
MetFields == {MetOrder[i] : i \in 1..Len(MetOrder)}

MetColumn(f) ==
    CASE f = "wspd" -> "WSPD" [] f = "wdir" -> "WDIR" [] f = "wvht" -> "WVHT"
      [] f = "dpd" -> "DPD" [] f = "pres" -> "PRES" [] f = "atmp" -> "ATMP"
      [] f = "wtmp" -> "WTMP"

\* one iteration of the row loop: each field absent from readings is tried
MetRow(parts, colMap, readings) ==
    IF Len(parts) < 10 THEN readings
    ELSE LET got == {f \in MetFields \ DOMAIN readings :
                        ~IsNone(MetGet(parts, colMap, MetColumn(f)))}
         IN [f \in DOMAIN readings \cup got |->
                IF f \in DOMAIN readings THEN readings[f]
                ELSE Get(MetGet(parts, colMap, MetColumn(f)))]

RECURSIVE MetScan(_, _, _, _)
MetScan(rows, colMap, k, readings) ==
    IF k > Len(rows) THEN readings
    ELSE LET r2 == MetRow(rows[k], colMap, readings) IN
         IF Len(rows[k]) >= 10 /\ Cardinality(DOMAIN r2) >= 4 THEN r2
         ELSE MetScan(rows, colMap, k + 1, r2)

\* _parse_ndbc_met_txt(text): None or a dict
ParseNdbcMetTxt(text) ==
    IF IsNone(text) \/ Get(text) = <<>> THEN None
    ELSE LET lines == Get(text) IN
         IF Len(lines) < 3 THEN None
         ELSE LET readings == MetScan(Slice(lines, 2, 6), ColMap(lines[1]), 1,
                                      EmptyDict)
              IN IF DOMAIN readings = {} THEN None ELSE Some(readings)

\* the body of the row loop of _parse_txt_feed: the value the row returns,
\* None when the loop goes on to the next row
TxtRow(parts, colMap) ==
    LET wtmpIdx == ColGet(colMap, "WTMP", 0) IN
    IF Len(parts) < 5 THEN None
    ELSE IF "WTMP" \in DOMAIN colMap /\ wtmpIdx # 0 /\ wtmpIdx < Len(parts)
    THEN LET v == ParseFloat(parts[wtmpIdx + 1]) IN
         IF IsNone(v) THEN None
         ELSE IF Get(v) < 50000 /\ parts[wtmpIdx + 1] # "MM" THEN v
         ELSE None
    ELSE None

RECURSIVE TxtScan(_, _, _)
TxtScan(rows, colMap, k) ==
    IF k > Len(rows) THEN None
    ELSE IF ~IsNone(TxtRow(rows[k], colMap))
    THEN Some([f \in {"temp"} |-> Get(TxtRow(rows[k], colMap))])
    ELSE TxtScan(rows, colMap, k + 1)

\* _parse_txt_feed(text): None or {"temp": v}
ParseTxtFeed(text) ==
    IF IsNone(text) \/ Get(text) = <<>> THEN None
    ELSE LET lines == Get(text) IN
         IF Len(lines) < 3 THEN None
         ELSE TxtScan(Slice(lines, 2, 10), ColMap(lines[1]), 1)

(***************************************************************************)
(* Feed texts the parsers are run on.                                      *)
(***************************************************************************)
MaxTailRows == 2

OceanHeader ==
    <<"#YY", "MM", "DD", "hh", "mm", "DEPTH", "OTMP", "COND", "SAL", "O2%",
      "O2PPM", "CLCON", "TURB", "PH", "EH">>

MetHeader ==
    <<"#YY", "MM", "DD", "hh", "mm", "WDIR", "WSPD", "GST", "WVHT", "DPD",
      "APD", "MWD", "PRES", "ATMP", "WTMP", "DEWP", "VIS", "PTDY", "TIDE">>

OceanColumns == {OceanColumn(f) : f \in OceanFields}
MetColumns == {MetColumn(f) : f \in MetFields}
TrackedColumns(header) == IF header = OceanHeader THEN OceanColumns ELSE MetColumns


DateGood == <<"2024", "06", "15", "12", "30">>   \* 2024-06-15 12:30
DateLater == <<"2024", "06", "15", "13", "30">>  \* 2024-06-15 13:30
DateBadMonth == <<"2024", "13", "15", "12", "30">>  \* ints, but no such month
DateNoInt == <<"MM", "06", "15", "12", "30">>    \* int() fails on the year

Vocabulary ==
    Sentinels \cup
    { "98.9", "99", "99.000", "180", "998.9", "999.00", "1013.2", "5.2", "49.9",
      "50.0", "-1.5", "n/a" }

\* a data row under `header`: the date, vals[c] in each column c of DOMAIN vals,
\* MM elsewhere
ValuesRow(header, date, vals) ==
    [i \in 1..Len(header) |->
        IF i <= 5 THEN date[i]
        ELSE IF header[i] \in DOMAIN vals THEN vals[header[i]] ELSE "MM"]

\* a data row under `header`: the date, `tok` in column `col`, MM elsewhere
ProbeRow(header, date, col, tok) == ValuesRow(header, date, [c \in {col} |-> tok])

\* a data row with "7.1" in every column after the date
FullRow(header, date) ==
    [i \in 1..Len(header) |-> IF i <= 5 THEN date[i] ELSE "7.1"]

ShortRow == <<"2024", "06", "15">>

FirstRows(header) ==
    { ProbeRow(header, d, c, t) :
        d \in {DateGood, DateBadMonth, DateNoInt},
        c \in TrackedColumns(header), t \in Vocabulary }
    \cup {ShortRow}

TailRows(header) ==
    { ProbeRow(header, DateLater, "none", "MM"), FullRow(header, DateLater), ShortRow }

SeqsUpTo(S, n) == UNION {[1..k -> S] : k \in 0..n}

UnitsLine == <<"#yr", "mo", "dy", "hr", "mn">>

FeedTexts ==
    {None, Some(<<>>), Some(<<OceanHeader, UnitsLine>>)}
    \cup { Some(<<h, UnitsLine, r>> \o tail) :
             h \in {OceanHeader}, r \in FirstRows(OceanHeader),
             tail \in SeqsUpTo(TailRows(OceanHeader), MaxTailRows) }
    \cup { Some(<<h, UnitsLine, r>> \o tail) :
             h \in {MetHeader}, r \in FirstRows(MetHeader),
             tail \in SeqsUpTo(TailRows(MetHeader), MaxTailRows) }

(***************************************************************************)
(* SpecParse: each parser applied once to a feed text.                     *)
(***************************************************************************)
InitParse ==
    /\ pc = "input"
    /\ files = EmptyDict
    /\ upstream \in [text : FeedTexts]
    /\ requests = <<>>
    /\ result = None
    /\ before = files

RunParseOceanFeed ==
    /\ pc = "input"
    /\ pc' = "parsed"
    /\ result' = [fn |-> "_parse_ocean_feed", value |-> ParseOceanFeed(upstream.text)]
    /\ UNCHANGED <<files, upstream, requests, before>>

RunParseNdbcMetTxt ==
    /\ pc = "input"
    /\ pc' = "parsed"
    /\ result' = [fn |-> "_parse_ndbc_met_txt", value |-> ParseNdbcMetTxt(upstream.text)]
    /\ UNCHANGED <<files, upstream, requests, before>>

RunParseTxtFeed ==
    /\ pc = "input"
    /\ pc' = "parsed"
    /\ result' = [fn |-> "_parse_txt_feed", value |-> ParseTxtFeed(upstream.text)]
    /\ UNCHANGED <<files, upstream, requests, before>>

NextParse == RunParseOceanFeed \/ RunParseNdbcMetTxt \/ RunParseTxtFeed

SpecParse == InitParse /\ [][NextParse]_vars

(***************************************************************************)
(* fetch_glider_track of update_data.py.  A coordinate is an integer count *)
(* of 1e-5 degrees; round(x, 4) gives an integer count of 1e-4 degrees.    *)
(***************************************************************************)

\* round(x, 4): to the nearest 1e-4, a tie to the even neighbour
Round4(x) ==
    LET q == x \div 10
        r == x % 10
    IN IF r < 5 THEN q
       ELSE IF r > 5 THEN q + 1
       ELSE IF q % 2 = 0 THEN q ELSE q + 1

\* a row of the ERDDAP table is <<time, lat, lon>>, lat and lon None or a number
RowValid(row) == ~IsNone(row[2]) /\ ~IsNone(row[3])

\* [round(lon, 4), round(lat, 4)]
RowPoint(row) == <<Round4(Get(row[3])), Round4(Get(row[2]))>>

TrackMaxPoints == 200

\* step = max(1, len(rows) // 200)
TrackStep(rows) == Max(1, Len(rows) \div TrackMaxPoints)

\* range(0, len(rows), step), as 1-based positions
SampledPositions(rows, step) ==
    [k \in 1..((Len(rows) - 1) \div step + 1) |-> (k - 1) * step + 1]

\* the loop over the sampled rows: the points of those with coordinates
SampledTrack(rows, positions) ==
    LET HasCoords(p) == RowValid(rows[p])
        kept == SelectSeq(positions, HasCoords)
    IN [k \in 1..Len(kept) |-> RowPoint(rows[kept[k]])]

\* "always include the last point"
WithLastPoint(track, lastRow) ==
    IF RowValid(lastRow) /\ (track = <<>> \/ track[Len(track)] # RowPoint(lastRow))
    THEN Append(track, RowPoint(lastRow))
    ELSE track

\* fetch_glider_track: resp is None when the request or the decoding raises or
\* the status is not 200, else the rows of the table
FetchGliderTrack(resp) ==
    IF IsNone(resp) THEN <<>>
    ELSE IF Get(resp) = <<>> THEN <<>>
    ELSE WithLastPoint(
            SampledTrack(Get(resp), SampledPositions(Get(resp), TrackStep(Get(resp)))),
            Get(resp)[Len(Get(resp))])

(***************************************************************************)
(* SpecTrack: fetch_glider_track on one ERDDAP response.                   *)
(***************************************************************************)
MaxTrackRows == 1001

BaseLat == 25 * 100000 + 3
BaseLon == -(90 * 100000) - 4

\* northbound: the latitude grows with every row; parked: the glider does not
\* move; gaps: northbound, every third row without coordinates
TrackRow(shape, i) ==
    CASE shape = "northbound" -> <<i, Some(BaseLat + 10 * i), Some(BaseLon - 4 * i)>>
      [] shape = "parked" -> <<i, Some(BaseLat), Some(BaseLon)>>
      [] shape = "gaps" -> IF i % 3 = 0 THEN <<i, None, None>>
                           ELSE <<i, Some(BaseLat + 10 * i), Some(BaseLon - 4 * i)>>

TrackResponses ==
    {None} \cup
    { Some([i \in 1..n |-> TrackRow(shape, i)]) :
        n \in 0..MaxTrackRows, shape \in {"northbound", "parked", "gaps"} }

InitTrack ==
    /\ pc = "input"
    /\ files = EmptyDict
    /\ upstream \in [track : TrackResponses]
    /\ requests = <<>>
    /\ result = None
    /\ before = files

RunFetchGliderTrack ==
    /\ pc = "input"
    /\ pc' = "tracked"
    /\ requests' = <<"tabledap">>
    /\ result' = [fn |-> "fetch_glider_track", value |-> FetchGliderTrack(upstream.track)]
    /\ UNCHANGED <<files, upstream, before>>

NextTrack == RunFetchGliderTrack

SpecTrack == InitTrack /\ [][NextTrack]_vars

(***************************************************************************)
(* Files of docs/data and the writer.  A file is absent, holds a document, *)
(* or is truncated: opened with "w" and not, or only partly, written.      *)
(***************************************************************************)
Absent == [kind |-> "absent"]
Truncated == [kind |-> "truncated"]
DocFile(d) == [kind |-> "doc", doc |-> d]

FileNames ==
    {"latest.json", "currents.json", "ioos_sensors.json", "ndbc_met.json",
     "coops.json", "gliders.json", "drifters.json", "incidents.json", "pmel.json"}

\* what a call leaves behind: did it raise, and the file it was writing
Outcome(raised, file) == [raised |-> raised, file |-> file]

\* with open(path, "w") as f: json.dump(data, f): `fault` is the place where the
\* operating system fails the call ("none": nowhere).  A failed open leaves the
\* file as it was; after a successful open the old content is gone.
WriteFile(old, doc, fault) ==
    CASE fault = "open" -> Outcome(TRUE, old)
      [] fault = "dump" -> Outcome(TRUE, Truncated)
      [] OTHER -> Outcome(FALSE, DocFile(doc))

\* save_json(path, data): the write, then path.stat() and print
SaveJson(old, doc, fault) ==
    IF fault = "stat" THEN Outcome(TRUE, DocFile(doc))
    ELSE WriteFile(old, doc, fault)

(***************************************************************************)
(* update_ndbc_hypoxia of update_data.py.  A station of latest.json is     *)
(* [id, name, current]; current is [kind, dict] with kind "absent" (no     *)
(* such key), "null" or "dict".                                            *)
(***************************************************************************)
NoCurrent == [kind |-> "absent", dict |-> EmptyDict]
NullCurrent == [kind |-> "null", dict |-> EmptyDict]
DictCurrent(d) == [kind |-> "dict", dict |-> d]

\* the key of station["current"] a key of the readings is stored under
CurrentKey(key) == IF key = "timestamp" THEN "last_obs" ELSE key

\* the merge written as station["current"] = readings (keys renamed)
MergeReplacing(cur, readings) ==
    [k \in {CurrentKey(key) : key \in DOMAIN readings} |->
        readings[CHOOSE key \in DOMAIN readings : CurrentKey(key) = k]]

\* for key, val in readings.items(): station["current"][...] = val
MergeReadings(cur, readings) ==
    [k \in DOMAIN cur \cup {CurrentKey(key) : key \in DOMAIN readings} |->
        IF \E key \in DOMAIN readings : CurrentKey(key) = k
        THEN readings[CHOOSE key \in DOMAIN readings : CurrentKey(key) = k]
        ELSE cur[k]]

\* `if not readings`: None or an empty dict
Falsy(readings) == IsNone(readings) \/ DOMAIN Get(readings) = {}

\* the readings of one station: the .ocean feed, else the .txt feed
StationReadings(up, sid) ==
    IF Falsy(ParseOceanFeed(up.ocean[sid]))
    THEN ParseTxtFeed(up.txt[sid])
    ELSE ParseOceanFeed(up.ocean[sid])

\* the fetches made for one station, in order
StationRequests(up, sid) ==
    IF Falsy(ParseOceanFeed(up.ocean[sid]))
    THEN <<(<<"ocean", sid>>), (<<"txt", sid>>)>>
    ELSE <<(<<"ocean", sid>>)>>

\* the loop body with `current` emptied when a station has no readings
\* (stale values dropped), the behaviour the frame of the update excludes
StationAfterClearing(station, readings) ==
    IF Falsy(readings) THEN [station EXCEPT !.current = DictCurrent(EmptyDict)]
    ELSE [station EXCEPT !.current =
            DictCurrent(MergeReadings(
                IF station.current.kind = "dict" THEN station.current.dict
                ELSE EmptyDict,
                Get(readings)))]

\* the body of the loop over data["stations"]
StationAfter(station, readings) ==
    IF Falsy(readings) THEN station
    ELSE [station EXCEPT !.current =
            DictCurrent(MergeReadings(
                IF station.current.kind = "dict" THEN station.current.dict
                ELSE EmptyDict,
                Get(readings)))]

RECURSIVE HypoxiaRequests(_, _, _)
HypoxiaRequests(stations, up, k) ==
    IF k > Len(stations) THEN <<>>
    ELSE StationRequests(up, stations[k].id) \o HypoxiaRequests(stations, up, k + 1)

\* update_ndbc_hypoxia(): [raised, file, requests]
UpdateNdbcHypoxia(old, up, fault) ==
    IF old.kind = "absent" THEN [raised |-> FALSE, file |-> old, requests |-> <<>>]
    ELSE IF old.kind # "doc" THEN [raised |-> TRUE, file |-> old, requests |-> <<>>]
    ELSE [raised |-> WriteFile(old, old.doc, fault).raised,
          file |-> WriteFile(old,
                     [old.doc EXCEPT
                        !.updated = up.now,
                        !.stations = [i \in 1..Len(old.doc.stations) |->
                            StationAfter(old.doc.stations[i],
                                         StationReadings(up, old.doc.stations[i].id))]],
                     fault).file,
          requests |-> HypoxiaRequests(old.doc.stations, up, 1)]

(***************************************************************************)
(* Discovery and the features it returns.  A feature (item) is             *)
(*   [id, geometry, props, bbox, links]                                    *)
(* geometry is [kind, type, point, line]: kind "absent" (no such key),     *)
(* "null" or "object"; point is the coordinates of a Point (None: no such  *)
(* key; each entry None or a number), line the coordinates of a MultiPoint *)
(* or LineString.  A string-valued property is [kind, str] with kind       *)
(* "absent", "null" or "str".                                              *)
(***************************************************************************)
StrVal(str) == [kind |-> "str", str |-> str]
NullVal == [kind |-> "null", str |-> ""]
AbsentVal == [kind |-> "absent", str |-> ""]

\* d.get(key, default) for a property [kind, str]
PropGet(prop, default) == IF prop.kind = "absent" THEN default ELSE prop

\* s[:n] of a string, of a list
Cap(str, n) == SubSeq(str, 1, Min(n, Len(str)))
Take(list, n) == SubSeq(list, 1, Min(n, Len(list)))

\* list[-n:]
LastN(list, n) == SubSeq(list, Max(1, Len(list) - n + 1), Len(list))

\* kw in s
Contains(str, kw) ==
    \E i \in 1..(Len(str) - Len(kw) + 1) : SubSeq(str, i, i + Len(kw) - 1) = kw

\* the positions of the one-character separator sep in s
Cuts(str, sep) == {i \in 1..Len(str) : Ch(str, i) = sep}

\* s.split(sep)[-1] when sep is in s
SplitLast(str, sep) ==
    SubSeq(str, (CHOOSE i \in Cuts(str, sep) : \A j \in Cuts(str, sep) : j <= i) + 1,
           Len(str))

\* sid.split("_")[-1] if "_" in sid else sid
LastSegment(sid) == IF Cuts(sid, "_") = {} THEN sid ELSE SplitLast(sid, "_")

\* the collections of the AQUAVIEW catalogue the updaters query
Collections == {"IOOS_SENSORS", "NDBC", "COOPS", "IOOS", "NOAA_GDP", "INCIDENT_NEWS", "PMEL"}

\* fetch_aquaview_items(collection): the features of the answer, [] when the
\* query failed ("failed") or the answer has no "features" ("nofeatures")
FetchAquaviewItems(up, collection) ==
    IF up.discovery[collection].kind = "ok" THEN up.discovery[collection].features
    ELSE <<>>

\* item.get("geometry", {})
GeomOf(item) ==
    IF item.geometry.kind = "absent"
    THEN [kind |-> "object", type |-> "", point |-> None, line |-> <<>>]
    ELSE item.geometry

\* geom.get("coordinates", [None, None]) of a Point
PointCoords(geom) == IF IsNone(geom.point) THEN <<None, None>> ELSE Get(geom.point)

\* what one pass of an updater's loop body does with an item
Skip == [kind |-> "skip"]
Raise == [kind |-> "raise"]
Record(rec) == [kind |-> "record", rec |-> rec]

\* the test `geom.get("type") != "Point" or len(coords) < 2: continue`, then
\* lat, lon = coords[1], coords[0]: <<lon, lat>>, None when the item is skipped
PointOnly(geom) ==
    IF geom.type # "Point" \/ Len(PointCoords(geom)) < 2 THEN None
    ELSE Some(<<PointCoords(geom)[1], PointCoords(geom)[2]>>)

\* the geometry test of update_ioos_sensors: Point, or the first of a MultiPoint
PointOrMultiPoint(geom) ==
    IF geom.type = "Point" /\ Len(PointCoords(geom)) >= 2
    THEN Some(<<PointCoords(geom)[1], PointCoords(geom)[2]>>)
    ELSE IF geom.type = "MultiPoint" /\ geom.line # <<>>
    THEN Some(<<Some(geom.line[1][1]), Some(geom.line[1][2])>>)
    ELSE None

\* round() of a coordinate that is no number raises TypeError
Roundable(lonlat) == ~IsNone(lonlat[1]) /\ ~IsNone(lonlat[2])

\* the list an updater builds from per-item results, None when an item raised
Collect(steps) ==
    IF \E i \in 1..Len(steps) : steps[i].kind = "raise" THEN None
    ELSE LET IsRecord(s) == s.kind = "record"
             kept == SelectSeq(steps, IsRecord)
         IN Some([i \in 1..Len(kept) |-> kept[i].rec])

\* CategoryDoc with `count` taken from the last record's own "count" (the
\* number of points of a drifter track) where the records have one
CategoryDocPointCount(key, now, records) ==
    [key |-> key, updated |-> now,
     count |-> IF key = "drifters" /\ records # <<>> THEN records[Len(records)].count
               ELSE Len(records),
     items |-> records]

\* the document an updater writes
CategoryDoc(key, now, records) ==
    [key |-> key, updated |-> now, count |-> Len(records), items |-> records]

\* SaveCategory with the records added to those of the file's last document
\* (an accumulating writer), the behaviour idempotence excludes
SaveCategoryAppending(old, key, now, built, fault) ==
    IF IsNone(built) THEN Outcome(TRUE, old)
    ELSE SaveJson(old,
                  CategoryDoc(key, now,
                              (IF old.kind = "doc" THEN old.doc.items ELSE <<>>)
                                  \o Get(built)),
                  fault)

\* result = {...}; save_json(PATH, result), after a loop that built `built`
SaveCategory(old, key, now, built, fault) ==
    IF IsNone(built) THEN Outcome(TRUE, old)
    ELSE SaveJson(old, CategoryDoc(key, now, Get(built)), fault)

\* an updater's result with the secondary requests it issued
WithRequests(out, reqs) ==
    [raised |-> out.raised, file |-> out.file, requests |-> reqs]

(***************************************************************************)
(* update_ioos_sensors                                                     *)
(***************************************************************************)
SensorRecord(item, lonlat) ==
    [id |-> item.id,
     title |-> Cap(PropGet(item.props.title, StrVal(item.id)).str, 80),
     lat |-> Round4(Get(lonlat[2])),
     lon |-> Round4(Get(lonlat[1])),
     vars |-> Take(item.props.vars, 10),
     src |-> Cap(item.props.src, 200),
     org |-> item.props.org]

\* a title that is null cannot be sliced (TypeError)
TitleOk(item) == item.props.title.kind # "null"

SensorItem(item) ==
    IF item.geometry.kind = "null" THEN Raise
    ELSE IF IsNone(PointOrMultiPoint(GeomOf(item))) THEN Skip
    ELSE IF ~TitleOk(item) \/ ~Roundable(Get(PointOrMultiPoint(GeomOf(item)))) THEN Raise
    ELSE Record(SensorRecord(item, Get(PointOrMultiPoint(GeomOf(item)))))

UpdateIoosSensors(old, up, fault) ==
    WithRequests(
        SaveCategory(old, "sensors", up.now,
            Collect([i \in 1..Len(FetchAquaviewItems(up, "IOOS_SENSORS")) |->
                        SensorItem(FetchAquaviewItems(up, "IOOS_SENSORS")[i])]),
            fault),
        <<>>)

(***************************************************************************)
(* update_pmel                                                             *)
(***************************************************************************)
\* props.get("datetime", props.get("start_datetime", ""))
DateOf(props) == PropGet(props.datetime, PropGet(props.start, StrVal("")))

PmelRecord(item, lonlat) ==
    [id |-> item.id,
     title |-> Cap(PropGet(item.props.title, StrVal(item.id)).str, 80),
     lat |-> Round4(Get(lonlat[2])),
     lon |-> Round4(Get(lonlat[1])),
     vars |-> Take(item.props.vars, 6),
     date |-> DateOf(item.props),
     src |-> Cap(item.props.src, 200)]

PmelItem(item) ==
    IF item.geometry.kind = "null" THEN Raise
    ELSE IF IsNone(PointOnly(GeomOf(item))) THEN Skip
    ELSE IF ~TitleOk(item) \/ ~Roundable(Get(PointOnly(GeomOf(item)))) THEN Raise
    ELSE Record(PmelRecord(item, Get(PointOnly(GeomOf(item)))))

UpdatePmel(old, up, fault) ==
    WithRequests(
        SaveCategory(old, "probes", up.now,
            Collect([i \in 1..Len(FetchAquaviewItems(up, "PMEL")) |->
                        PmelItem(FetchAquaviewItems(up, "PMEL")[i])]),
            fault),
        <<>>)

(***************************************************************************)
(* update_ndbc_met                                                         *)
(***************************************************************************)
\* the answer of a per-station URL, None when the fetch failed
FeedOf(feeds, sid) == IF sid \in DOMAIN feeds THEN feeds[sid] ELSE None

\* `if fetched < 200:  # Rate-limit: fetch top 200 buoys`
MetFetchCap == 200

BuoyRecord(item, lonlat) ==
    [id |-> LastSegment(item.id),
     lat |-> Round4(Get(lonlat[2])),
     lon |-> Round4(Get(lonlat[1])),
     title |-> Cap(PropGet(item.props.title, StrVal(LastSegment(item.id))).str, 80),
     vars |-> Take(item.props.vars, 8),
     current |-> None]

\* buoy["current"] = readings; fetched += 1, only `if readings`
BuoyFetched(acc, buoy, readings) ==
    [raised |-> FALSE,
     records |-> Append(acc.records,
                    IF Falsy(readings) THEN buoy ELSE [buoy EXCEPT !.current = readings]),
     fetched |-> IF Falsy(readings) THEN acc.fetched ELSE acc.fetched + 1,
     requests |-> Append(acc.requests, buoy.id)]

\* the part of the loop body after the buoy dict is built
BuoyStep(acc, buoy, txt) ==
    IF acc.fetched < MetFetchCap
    THEN BuoyFetched(acc, buoy, ParseNdbcMetTxt(FeedOf(txt, buoy.id)))
    ELSE [acc EXCEPT !.records = Append(acc.records, buoy)]

\* one pass of the loop body; acc is [raised, records, fetched, requests]
BuoyItem(acc, item, txt) ==
    IF item.geometry.kind = "null" THEN [acc EXCEPT !.raised = TRUE]
    ELSE IF IsNone(PointOnly(GeomOf(item))) THEN acc
    ELSE IF ~TitleOk(item) \/ ~Roundable(Get(PointOnly(GeomOf(item))))
    THEN [acc EXCEPT !.raised = TRUE]
    ELSE BuoyStep(acc, BuoyRecord(item, Get(PointOnly(GeomOf(item)))), txt)

\* `for item in items` over items[lo..hi], in order: the first half, then the
\* second half from where the first half ended; nothing more happens once
\* a pass has raised
RECURSIVE BuoyLoop(_, _, _, _, _)
BuoyLoop(items, txt, lo, hi, acc) ==
    IF lo > hi \/ acc.raised THEN acc
    ELSE IF lo = hi THEN BuoyItem(acc, items[lo], txt)
    ELSE BuoyLoop(items, txt, (lo + hi) \div 2 + 1, hi,
                  BuoyLoop(items, txt, lo, (lo + hi) \div 2, acc))

MetSave(old, now, loop, fault) ==
    WithRequests(
        IF loop.raised THEN Outcome(TRUE, old)
        ELSE SaveJson(old, CategoryDoc("buoys", now, loop.records), fault),
        loop.requests)

UpdateNdbcMet(old, up, fault) ==
    MetSave(old, up.now,
        BuoyLoop(FetchAquaviewItems(up, "NDBC"), up.txt,
                 1, Len(FetchAquaviewItems(up, "NDBC")),
                 [raised |-> FALSE, records |-> <<>>, fetched |-> 0, requests |-> <<>>]),
        fault)

(***************************************************************************)
(* update_coops                                                            *)
(***************************************************************************)
\* `for s in stations[:100]`
CoopsFetchCap == 100

CoopsRecord(item, lonlat) ==
    [id |-> LastSegment(item.id),
     lat |-> Round4(Get(lonlat[2])),
     lon |-> Round4(Get(lonlat[1])),
     title |-> Cap(PropGet(item.props.title, StrVal(LastSegment(item.id))).str, 80),
     vars |-> Take(item.props.vars, 6),
     src |-> Cap(item.props.src, 200),
     current |-> None]

CoopsItem(item) ==
    IF item.geometry.kind = "null" THEN Raise
    ELSE IF IsNone(PointOnly(GeomOf(item))) THEN Skip
    ELSE IF ~TitleOk(item) \/ ~Roundable(Get(PointOnly(GeomOf(item)))) THEN Raise
    ELSE Record(CoopsRecord(item, Get(PointOnly(GeomOf(item)))))

\* the water-level answer of one station: None (fetch failed or no JSON), or
\* <<[kind, data]>> with data the list under "data" (empty when the answer
\* has no such key); the station gets "current" from the last entry unless
\* float() of its "v" raises, which the loop's except swallows
WaterLevel(resp) ==
    IF IsNone(resp) \/ Get(resp).data = <<>> THEN None
    ELSE IF IsNone(ParseFloat(Get(resp).data[Len(Get(resp).data)].v)) THEN None
    ELSE Some([wl |-> Get(ParseFloat(Get(resp).data[Len(Get(resp).data)].v)),
               time |-> Get(resp).data[Len(Get(resp).data)].t])

CoopsFetch(stations, levels) ==
    [i \in 1..Len(stations) |->
        IF i <= CoopsFetchCap /\ ~IsNone(WaterLevel(FeedOf(levels, stations[i].id)))
        THEN [stations[i] EXCEPT !.current = WaterLevel(FeedOf(levels, stations[i].id))]
        ELSE stations[i]]

CoopsRequests(stations) ==
    [i \in 1..Min(CoopsFetchCap, Len(stations)) |-> stations[i].id]

CoopsSave(old, now, built, levels, fault) ==
    IF IsNone(built) THEN WithRequests(Outcome(TRUE, old), <<>>)
    ELSE WithRequests(
            SaveJson(old, CategoryDoc("stations", now, CoopsFetch(Get(built), levels)), fault),
            CoopsRequests(Get(built)))

UpdateCoops(old, up, fault) ==
    CoopsSave(old, up.now,
        Collect([i \in 1..Len(FetchAquaviewItems(up, "COOPS")) |->
                    CoopsItem(FetchAquaviewItems(up, "COOPS")[i])]),
        up.levels, fault)

(***************************************************************************)
(* update_incidents                                                        *)
(***************************************************************************)
\* next((l.get("href", "") for l in links if l.get("rel") == "alternate"), "")
AlternateUrl(links) ==
    LET IsAlternate(l) == l.rel = "alternate"
        alts == SelectSeq(links, IsAlternate)
    IN IF alts = <<>> THEN "" ELSE alts[1].href

IncidentRecord(item, lonlat) ==
    [id |-> item.id,
     title |-> Cap(PropGet(item.props.title, StrVal("Unknown Incident")).str, 120),
     lat |-> Round4(Get(lonlat[2])),
     lon |-> Round4(Get(lonlat[1])),
     date |-> DateOf(item.props),
     desc |-> Cap(item.props.desc, 300),
     url |-> AlternateUrl(item.links)]

IncidentItem(item) ==
    IF item.geometry.kind = "null" THEN Raise
    ELSE IF IsNone(PointOnly(GeomOf(item))) THEN Skip
    ELSE IF ~TitleOk(item) \/ ~Roundable(Get(PointOnly(GeomOf(item)))) THEN Raise
    ELSE Record(IncidentRecord(item, Get(PointOnly(GeomOf(item)))))

\* the code point of a character a date string is made of
CodePoint(c) ==
    CASE c \in DigitChars -> 48 + DigitVal(c)
      [] c = " " -> 32 [] c = "+" -> 43 [] c = "-" -> 45 [] c = "." -> 46
      [] c = "/" -> 47 [] c = ":" -> 58 [] c = "T" -> 84 [] c = "Z" -> 90
      [] c = "a" -> 97 [] c = "n" -> 110 [] c = "u" -> 117
      [] OTHER -> 63

\* a < b for two strings, as Python compares them
RECURSIVE StrLess(_, _)
StrLess(a, b) ==
    IF b = "" THEN FALSE
    ELSE IF a = "" THEN TRUE
    ELSE IF Ch(a, 1) # Ch(b, 1) THEN CodePoint(Ch(a, 1)) < CodePoint(Ch(b, 1))
    ELSE StrLess(SubSeq(a, 2, Len(a)), SubSeq(b, 2, Len(b)))

\* the place of x in a list already in descending order of date: after every
\* record that is not less than it (the sort is stable)
InsertDesc(sorted, x) ==
    LET ahead == {i \in 1..Len(sorted) : ~StrLess(sorted[i].date.str, x.date.str)}
        n == Cardinality(ahead)
    IN SubSeq(sorted, 1, n) \o <<x>> \o SubSeq(sorted, n + 1, Len(sorted))

RECURSIVE SortDesc(_, _, _)
SortDesc(list, k, sorted) ==
    IF k > Len(list) THEN sorted
    ELSE SortDesc(list, k + 1, InsertDesc(sorted, list[k]))

\* incidents.sort(key=lambda x: x.get("date", ""), reverse=True): None when a
\* comparison raises TypeError, which it does as soon as two records are
\* compared and one of the dates is null
SortIncidents(built) ==
    IF IsNone(built) THEN None
    ELSE IF Len(Get(built)) >= 2
            /\ \E i \in 1..Len(Get(built)) : Get(built)[i].date.kind = "null"
    THEN None
    ELSE Some(SortDesc(Get(built), 1, <<>>))

UpdateIncidents(old, up, fault) ==
    WithRequests(
        SaveCategory(old, "incidents", up.now,
            SortIncidents(
                Collect([i \in 1..Len(FetchAquaviewItems(up, "INCIDENT_NEWS")) |->
                            IncidentItem(FetchAquaviewItems(up, "INCIDENT_NEWS")[i])])),
            fault),
        <<>>)

(***************************************************************************)
(* update_gliders                                                          *)
(***************************************************************************)
LowerCh(c) ==
    CASE c = "A" -> "a" [] c = "B" -> "b" [] c = "C" -> "c" [] c = "D" -> "d"
      [] c = "E" -> "e" [] c = "F" -> "f" [] c = "G" -> "g" [] c = "H" -> "h"
      [] c = "I" -> "i" [] c = "J" -> "j" [] c = "K" -> "k" [] c = "L" -> "l"
      [] c = "M" -> "m" [] c = "N" -> "n" [] c = "O" -> "o" [] c = "P" -> "p"
      [] c = "Q" -> "q" [] c = "R" -> "r" [] c = "S" -> "s" [] c = "T" -> "t"
      [] c = "U" -> "u" [] c = "V" -> "v" [] c = "W" -> "w" [] c = "X" -> "x"
      [] c = "Y" -> "y" [] c = "Z" -> "z" [] OTHER -> c

\* s.lower()
RECURSIVE Lower(_)
Lower(str) ==
    IF str = "" THEN "" ELSE LowerCh(Ch(str, 1)) \o Lower(SubSeq(str, 2, Len(str)))

GliderKeywords == {"glider", "slocum", "spray", "seaglider", "sg", "ru", "usf"}

\* any(kw in title.lower() for kw in (...))
IsGliderTitle(title) == \E kw \in GliderKeywords : Contains(Lower(title), kw)

\* f"{parsed.scheme}://{parsed.netloc}/erddap" of a URL scheme://netloc/path
ErddapOrigin(src) ==
    LET starts == {i \in 1..(Len(src) - 2) : SubSeq(src, i, i + 2) = "://"} IN
    IF starts = {} THEN ":///erddap"
    ELSE LET s0 == CHOOSE i \in starts : \A j \in starts : i <= j
             ends == {i \in (s0 + 3)..Len(src) : Ch(src, i) = "/"}
             e0 == IF ends = {} THEN Len(src) + 1
                   ELSE CHOOSE i \in ends : \A j \in ends : i <= j
         IN SubSeq(src, 1, e0 - 1) \o "/erddap"

ErddapBase(src) ==
    IF Contains(src, "erddap") THEN ErddapOrigin(src) ELSE "https://gliders.ioos.us/erddap"

\* round((a + b) / 2, 4) from the sum a + b
Round4Half(sum) ==
    LET q == sum \div 20
        r == sum % 20
    IN IF r < 10 THEN q
       ELSE IF r > 10 THEN q + 1
       ELSE IF q % 2 = 0 THEN q ELSE q + 1

\* [[round(c[0], 4), round(c[1], 4)] for c in coords[-100:]]
LinePoints(line) ==
    [k \in 1..Len(LastN(line, 100)) |->
        <<Round4(LastN(line, 100)[k][1]), Round4(LastN(line, 100)[k][2])>>]

\* the fallback to the STAC geometry: a track (Record), no track (Skip), or
\* an exception (Raise)
GeometryTrack(item) ==
    IF item.geometry.kind = "null" THEN Raise
    ELSE IF GeomOf(item).type = "LineString" /\ Len(GeomOf(item).line) >= 2
    THEN Record(LinePoints(GeomOf(item).line))
    ELSE IF GeomOf(item).type = "Point"
    THEN IF IsNone(GeomOf(item).point) \/ Len(Get(GeomOf(item).point)) < 2
            \/ ~Roundable(PointCoords(GeomOf(item)))
         THEN Raise
         ELSE Record(<< <<Round4(Get(PointCoords(GeomOf(item))[1])),
                          Round4(Get(PointCoords(GeomOf(item))[2]))>> >>)
    ELSE IF GeomOf(item).type = "MultiPoint"
    THEN Record(LinePoints(GeomOf(item).line))
    ELSE IF ~IsNone(item.bbox) /\ Len(Get(item.bbox)) >= 4
    THEN Record(<< <<Round4Half(Get(item.bbox)[1] + Get(item.bbox)[3]),
                     Round4Half(Get(item.bbox)[2] + Get(item.bbox)[4])>> >>)
    ELSE Skip

GliderRecord(item, track) ==
    [id |-> item.id,
     title |-> Cap(PropGet(item.props.title, StrVal(item.id)).str, 80),
     track |-> track,
     vars |-> Take(item.props.vars, 6),
     start |-> PropGet(item.props.start, PropGet(item.props.datetime, StrVal(""))),
     end |-> PropGet(item.props.end, StrVal("")),
     src |-> Cap(item.props.src, 200)]

\* `if track and len(track) > 1`, else the fallback
GliderWithTrack(item, track) ==
    IF Len(track) > 1 THEN Record(GliderRecord(item, track))
    ELSE IF GeometryTrack(item).kind = "record"
    THEN Record(GliderRecord(item, GeometryTrack(item).rec))
    ELSE GeometryTrack(item)

\* is the track of this item asked for?
GliderAsked(item) ==
    TitleOk(item) /\ IsGliderTitle(PropGet(item.props.title, StrVal(item.id)).str)

GliderItem(item, tracks) ==
    IF ~TitleOk(item) THEN Raise
    ELSE IF ~GliderAsked(item) THEN Skip
    ELSE GliderWithTrack(item, FetchGliderTrack(FeedOf(tracks, item.id)))

\* the track requests up to the first item that raises
RECURSIVE GliderRequests(_, _, _, _)
GliderRequests(items, tracks, k, reqs) ==
    IF k > Len(items) THEN reqs
    ELSE IF GliderItem(items[k], tracks).kind = "raise"
    THEN IF GliderAsked(items[k])
         THEN Append(reqs, <<ErddapBase(items[k].props.src), items[k].id>>) ELSE reqs
    ELSE GliderRequests(items, tracks, k + 1,
            IF GliderAsked(items[k])
            THEN Append(reqs, <<ErddapBase(items[k].props.src), items[k].id>>) ELSE reqs)

UpdateGliders(old, up, fault) ==
    WithRequests(
        SaveCategory(old, "gliders", up.now,
            Collect([i \in 1..Len(FetchAquaviewItems(up, "IOOS")) |->
                        GliderItem(FetchAquaviewItems(up, "IOOS")[i], up.tracks)]),
            fault),
        GliderRequests(FetchAquaviewItems(up, "IOOS"), up.tracks, 1, <<>>))

(***************************************************************************)
(* update_drifters                                                         *)
(***************************************************************************)
\* s.rstrip("/")
RECURSIVE RStrip(_)
RStrip(str) ==
    IF str # "" /\ Ch(str, Len(str)) = "/" THEN RStrip(SubSeq(str, 1, Len(str) - 1))
    ELSE str

\* erddap_base.split("/")[-1] if "/" in erddap_base else ""
DatasetOf(base) == IF Cuts(base, "/") = {} THEN "" ELSE SplitLast(base, "/")

\* is the position table of this item asked for?
DrifterAsked(item) ==
    /\ item.props.src # ""
    /\ Contains(item.props.src, "erddap")
    /\ DatasetOf(RStrip(item.props.src)) # ""

\* a row of the position table is <<lat, lon>>, each None or a number:
\* [[round(r[1], 4), round(r[0], 4)] for r in rows if both are not None]
DrifterTrack(resp) ==
    IF IsNone(resp) THEN <<>>
    ELSE LET HasCoords(r) == ~IsNone(r[1]) /\ ~IsNone(r[2])
             kept == SelectSeq(Get(resp), HasCoords)
         IN [k \in 1..Len(kept) |-> <<Round4(Get(kept[k][2])), Round4(Get(kept[k][1]))>>]

DrifterRecord(item, track) ==
    [id |-> item.id,
     title |-> Cap(PropGet(item.props.title, StrVal(item.id)).str, 80),
     track |-> LastN(track, 200),
     count |-> Len(track),
     src |-> Cap(item.props.src, 200)]

\* the fallback to the STAC geometry
DrifterFromGeometry(item) ==
    IF item.geometry.kind = "null" THEN Raise
    ELSE IF GeomOf(item).type = "Point" /\ ~IsNone(GeomOf(item).point)
            /\ Len(Get(GeomOf(item).point)) >= 2
    THEN IF ~TitleOk(item) \/ ~Roundable(Get(GeomOf(item).point)) THEN Raise
         ELSE Record([id |-> item.id,
                      title |-> Cap(PropGet(item.props.title, StrVal(item.id)).str, 80),
                      track |-> << <<Round4(Get(Get(GeomOf(item).point)[1])),
                                     Round4(Get(Get(GeomOf(item).point)[2]))>> >>,
                      count |-> 1,
                      src |-> Cap(item.props.src, 200)])
    ELSE Skip

DrifterWithTrack(item, track) ==
    IF track # <<>>
    THEN IF TitleOk(item) THEN Record(DrifterRecord(item, track)) ELSE Raise
    ELSE DrifterFromGeometry(item)

DrifterItem(item, drifts) ==
    IF DrifterAsked(item)
    THEN DrifterWithTrack(item, DrifterTrack(FeedOf(drifts, RStrip(item.props.src))))
    ELSE DrifterFromGeometry(item)

RECURSIVE DrifterRequests(_, _, _, _)
DrifterRequests(items, drifts, k, reqs) ==
    IF k > Len(items) THEN reqs
    ELSE IF DrifterItem(items[k], drifts).kind = "raise"
    THEN IF DrifterAsked(items[k]) THEN Append(reqs, RStrip(items[k].props.src)) ELSE reqs
    ELSE DrifterRequests(items, drifts, k + 1,
            IF DrifterAsked(items[k]) THEN Append(reqs, RStrip(items[k].props.src))
            ELSE reqs)

UpdateDrifters(old, up, fault) ==
    WithRequests(
        SaveCategory(old, "drifters", up.now,
            Collect([i \in 1..Len(FetchAquaviewItems(up, "NOAA_GDP")) |->
                        DrifterItem(FetchAquaviewItems(up, "NOAA_GDP")[i], up.drifts)]),
            fault),
        DrifterRequests(FetchAquaviewItems(up, "NOAA_GDP"), up.drifts, 1, <<>>))

(***************************************************************************)
(* update_currents: the answer of CURRENTS_URL is written as it came.      *)
(* up.currents is None when the fetch failed, else the text; an empty text *)
(* is falsy and nothing is written.                                        *)
(***************************************************************************)
RawFile(text) == [kind |-> "raw", text |-> text]

UpdateCurrents(old, up, fault) ==
    WithRequests(
        IF IsNone(up.currents) \/ Get(up.currents) = "" THEN Outcome(FALSE, old)
        ELSE CASE fault = "open" -> Outcome(TRUE, old)
               [] fault = "dump" -> Outcome(TRUE, Truncated)
               [] OTHER -> Outcome(FALSE, RawFile(Get(up.currents))),
        <<"currents">>)

(***************************************************************************)
(* SpecHypoxia: one run of update_ndbc_hypoxia on a latest.json.           *)
(***************************************************************************)
MaxStations == 2

OceanText(row) == Some(<<OceanHeader, UnitsLine, row>>)
MetText(row) == Some(<<MetHeader, UnitsLine, row>>)

\* what the .ocean URL of a station may answer
OceanFeeds ==
    { None,
      Some(<<OceanHeader, UnitsLine>>),
      OceanText(ValuesRow(OceanHeader, DateGood, EmptyDict)),
      OceanText(ValuesRow(OceanHeader, DateBadMonth, EmptyDict)),
      OceanText(ValuesRow(OceanHeader, DateBadMonth, "OTMP" :> "21.0" @@ "SAL" :> "30.0")),
      OceanText(ValuesRow(OceanHeader, DateGood, "OTMP" :> "21.0" @@ "SAL" :> "30.0")),
      OceanText(ValuesRow(OceanHeader, DateGood, "O2PPM" :> "4.1" @@ "OTMP" :> "22.5")) }

\* what the .txt URL of a station may answer
TxtFeeds ==
    { None,
      MetText(ValuesRow(MetHeader, DateGood, "WTMP" :> "19.5" @@ "WSPD" :> "5.2")),
      MetText(ValuesRow(MetHeader, DateGood, "WTMP" :> "999.0" @@ "WSPD" :> "5.2")) }

Currents ==
    { NoCurrent, NullCurrent,
      DictCurrent("do" :> 5000 @@ "temp" :> 20000),
      DictCurrent("do" :> 5000 @@ "temp" :> 20000 @@ "last_obs" :> <<2024, 1, 1, 0, 0>>) }

\* the first station takes every combination, the further ones a few
StationChoices(i) ==
    IF i = 1
    THEN [current : Currents, ocean : OceanFeeds, txt : TxtFeeds]
    ELSE [current : {DictCurrent("do" :> 5000 @@ "temp" :> 20000 @@
                                 "last_obs" :> <<2024, 1, 1, 0, 0>>)},
          ocean : {OceanText(ValuesRow(OceanHeader, DateGood, EmptyDict)),
                   OceanText(ValuesRow(OceanHeader, DateGood,
                                       "OTMP" :> "21.0" @@ "SAL" :> "30.0"))},
          txt : {None,
                 MetText(ValuesRow(MetHeader, DateGood,
                                   "WTMP" :> "19.5" @@ "WSPD" :> "5.2"))}]

StationId(i) == ToString(42000 + i)

StationWorlds ==
    UNION { {w \in [1..n -> UNION {StationChoices(i) : i \in 1..n}] :
                \A i \in 1..n : w[i] \in StationChoices(i)} : n \in 0..MaxStations }

LatestOf(w) ==
    DocFile([updated |-> 0,
             stations |-> [i \in 1..Len(w) |->
                 [id |-> StationId(i), name |-> "Station " \o StationId(i),
                  current |-> w[i].current]]])

FilesWith(name, file) == [n \in FileNames |-> IF n = name THEN file ELSE Absent]

InitHypoxia ==
    /\ pc = "start"
    /\ \E w \in StationWorlds :
          /\ files \in {FilesWith("latest.json", LatestOf(w))}
                       \cup (IF w = <<>>
                             THEN {FilesWith("latest.json", Absent),
                                   FilesWith("latest.json", Truncated)}
                             ELSE {})
          /\ upstream = [now |-> 1,
                         ocean |-> [sid \in {StationId(i) : i \in 1..Len(w)} |->
                                      w[CHOOSE i \in 1..Len(w) : StationId(i) = sid].ocean],
                         txt |-> [sid \in {StationId(i) : i \in 1..Len(w)} |->
                                      w[CHOOSE i \in 1..Len(w) : StationId(i) = sid].txt]]
    /\ requests = <<>>
    /\ result = None
    /\ before = files

HypoxiaStep(out) ==
    /\ pc' = "done"
    /\ files' = [files EXCEPT !["latest.json"] = out.file]
    /\ requests' = out.requests
    /\ result' = [fn |-> "update_ndbc_hypoxia", raised |-> out.raised]
    /\ UNCHANGED <<upstream, before>>

RunUpdateNdbcHypoxia ==
    /\ pc = "start"
    /\ \E fault \in {"none", "open", "dump"} :
          HypoxiaStep(UpdateNdbcHypoxia(files["latest.json"], upstream, fault))

NextHypoxia == RunUpdateNdbcHypoxia

SpecHypoxia == InitHypoxia /\ [][NextHypoxia]_vars

(***************************************************************************)
(* Claims about the feed parsers (SpecParse)                               *)
(***************************************************************************)
Parsed(fn) == pc = "parsed" /\ result.fn = fn

\* the token a row holds in column `col`, None when the row has no such column
TokenAt(parts, colMap, col) ==
    IF col \in DOMAIN colMap THEN PartAt(parts, colMap[col]) ELSE None

\* the lines of the text that was parsed, <<>> when there is no text
TextLines == IF IsNone(upstream.text) THEN <<>> ELSE Get(upstream.text)
TextColMap == ColMap(TextLines[1])

\* the first data row holds `tok` in column `col`
FirstRowHolds(col, tok) ==
    Len(TextLines) >= 3 /\ TokenAt(TextLines[3], TextColMap, col) = Some(tok)

\* some row of lines[2:n] holds in column `col` a token that is none of the
\* missing-value strings and that float() reads as v
ValueFromNonSentinel(n, col, v) ==
    \E k \in 3..Min(n, Len(TextLines)) :
        LET tok == TokenAt(TextLines[k], TextColMap, col) IN
        /\ ~IsNone(tok)
        /\ Get(tok) \notin Sentinels
        /\ ParseFloat(Get(tok)) = Some(v)

\* C7 as stated: in _parse_ocean_feed and in _parse_ndbc_met_txt no field of the
\* result carries a value v >= 99.
C7_CutoffAt99InBothParsers ==
    /\ Parsed("_parse_ocean_feed") /\ ~IsNone(result.value) =>
          \A f \in DOMAIN Get(result.value) \cap OceanFields :
              Get(result.value)[f] < 99000
    /\ Parsed("_parse_ndbc_met_txt") /\ ~IsNone(result.value) =>
          \A f \in DOMAIN Get(result.value) : Get(result.value)[f] < 99000

\* C7 amended: _parse_ocean_feed never returns a field with a value v >= 99,
\* _parse_ndbc_met_txt never returns one with a value v >= 999 (its cutoff),
\* and in both a 98.9 in the first well-formed row is retained for its field.
C7_NumericCutoff ==
    /\ Parsed("_parse_ocean_feed") =>
          /\ ~IsNone(result.value) =>
                \A f \in DOMAIN Get(result.value) \cap OceanFields :
                    Get(result.value)[f] < 99000
          /\ \A f \in OceanFields :
                /\ FirstRowHolds(OceanColumn(f), "98.9")
                /\ ~IsNone(RowDate(TextLines[3], TextColMap))
                => /\ ~IsNone(result.value)
                   /\ f \in DOMAIN Get(result.value)
                   /\ Get(result.value)[f] = 98900
    /\ Parsed("_parse_ndbc_met_txt") =>
          /\ ~IsNone(result.value) =>
                \A f \in DOMAIN Get(result.value) : Get(result.value)[f] < 999000
          /\ \A f \in MetFields :
                FirstRowHolds(MetColumn(f), "98.9") /\ Len(TextLines[3]) >= 10
                => /\ ~IsNone(result.value)
                   /\ f \in DOMAIN Get(result.value)
                   /\ Get(result.value)[f] = 98900

\* the ocean parser met a 99 (not one of the missing-value strings) in the
\* temperature column of a well-formed first row and returned no temperature
C7_Witness ==
    /\ Parsed("_parse_ocean_feed")
    /\ FirstRowHolds("OTMP", "99")
    /\ ~IsNone(RowDate(TextLines[3], TextColMap))
    /\ ~IsNone(result.value)
    /\ "temp" \notin DOMAIN Get(result.value)

\* C8: a row whose column holds one of the missing-value strings never
\* contributes a number for that field: every numeric field of a parser's result
\* was read from a row of its scan window whose token is none of those strings.
C8_SentinelNeverNumeric ==
    /\ Parsed("_parse_ocean_feed") /\ ~IsNone(result.value) =>
          \A f \in DOMAIN Get(result.value) \cap OceanFields :
              ValueFromNonSentinel(50, OceanColumn(f), Get(result.value)[f])
    /\ Parsed("_parse_ndbc_met_txt") /\ ~IsNone(result.value) =>
          \A f \in DOMAIN Get(result.value) :
              ValueFromNonSentinel(6, MetColumn(f), Get(result.value)[f])
    /\ Parsed("_parse_txt_feed") /\ ~IsNone(result.value) =>
          ValueFromNonSentinel(10, "WTMP", Get(result.value)["temp"])

\* the met parser met 99.0 in the first row's water temperature column and took
\* the water temperature from a later row instead
C8_Witness ==
    /\ Parsed("_parse_ndbc_met_txt")
    /\ FirstRowHolds("WTMP", "99.0")
    /\ Len(TextLines[3]) >= 10
    /\ ~IsNone(result.value)
    /\ "wtmp" \in DOMAIN Get(result.value)
    /\ Get(result.value)["wtmp"] = 7100

TrackRows == IF IsNone(upstream.track) THEN <<>> ELSE Get(upstream.track)

AllRowsValid == \A i \in 1..Len(TrackRows) : RowValid(TrackRows[i])

\* the latitude grows from each row to the next, so a track whose latitudes
\* grow takes its points in increasing row order
Northbound ==
    \A i \in 1..(Len(TrackRows) - 1) :
        Get(TrackRows[i][2]) < Get(TrackRows[i + 1][2])

\* C5: for a trajectory of N rows with valid coordinates the track has at most
\* 200 points, in strictly increasing row order, and ends with the last row.
C5_TrackWithin200 ==
    pc = "tracked" /\ TrackRows # <<>> /\ AllRowsValid =>
        /\ Len(result.value) <= 200
        /\ result.value[Len(result.value)] = RowPoint(TrackRows[Len(TrackRows)])
        /\ Northbound =>
              \A k \in 1..(Len(result.value) - 1) :
                  result.value[k][2] < result.value[k + 1][2]

(***************************************************************************)
(* Claims about the hypoxia station update (SpecHypoxia)                   *)
(***************************************************************************)
\* the run read latest.json and rewrote it
LatestRewritten ==
    /\ pc = "done"
    /\ before["latest.json"].kind = "doc"
    /\ ~result.raised

StationsBefore == before["latest.json"].doc.stations
StationsAfter == files["latest.json"].doc.stations

\* the `current` dict a station had, {} when it had none
DictOf(station) ==
    IF station.current.kind = "dict" THEN station.current.dict ELSE EmptyDict

ReadingsOf(station) == StationReadings(upstream, station.id)

\* the merge law for one station: old dict c, readings r, new dict a
C4_LawAsStated(c, r, a) ==
    /\ \A k \in DOMAIN c \ DOMAIN r : k \in DOMAIN a /\ a[k] = c[k]
    /\ \A k \in DOMAIN r \ {"timestamp"} : k \in DOMAIN a /\ a[k] = r[k]

C4_LawAmended(c, r, a) ==
    /\ DOMAIN a = DOMAIN c \cup {CurrentKey(k) : k \in DOMAIN r}
    /\ \A k \in DOMAIN c \ DOMAIN r :
          \/ k = "last_obs" /\ "timestamp" \in DOMAIN r
          \/ a[k] = c[k]
    /\ \A k \in DOMAIN r \ {"timestamp"} : a[k] = r[k]
    /\ "timestamp" \in DOMAIN r => a["last_obs"] = r["timestamp"]
    /\ (c = ("do" :> 5000 @@ "temp" :> 20000) /\ r = ("temp" :> 21000 @@ "sal" :> 30000))
          => a = ("do" :> 5000 @@ "temp" :> 21000 @@ "sal" :> 30000)

\* C4 as stated: after the merge a station's current holds every key of C that
\* is not a key of R with its old value, and every reading key of R with R's value.
C4_MergeKeepsEveryOtherKey ==
    LatestRewritten =>
        \A i \in 1..Len(StationsBefore) :
            ~Falsy(ReadingsOf(StationsBefore[i])) =>
                /\ StationsAfter[i].current.kind = "dict"
                /\ C4_LawAsStated(DictOf(StationsBefore[i]),
                                  Get(ReadingsOf(StationsBefore[i])),
                                  StationsAfter[i].current.dict)

\* C4 amended: after the merge a station's current has exactly the keys of C and
\* of R (R's timestamp under last_obs); every reading of R has R's value, last_obs
\* has R's timestamp when R has one, and every other key of C has its old value;
\* {do:5, temp:20} merged with {temp:21, sal:30} is {do:5, temp:21, sal:30}.
C4_MergeLaw ==
    LatestRewritten =>
        \A i \in 1..Len(StationsBefore) :
            ~Falsy(ReadingsOf(StationsBefore[i])) =>
                /\ StationsAfter[i].current.kind = "dict"
                /\ C4_LawAmended(DictOf(StationsBefore[i]),
                                 Get(ReadingsOf(StationsBefore[i])),
                                 StationsAfter[i].current.dict)

\* the first station had {do:5, temp:20}, read {temp:21, sal:30}, has all three
C4_Witness ==
    /\ LatestRewritten
    /\ Len(StationsBefore) >= 1
    /\ DictOf(StationsBefore[1]) = ("do" :> 5000 @@ "temp" :> 20000)
    /\ ReadingsOf(StationsBefore[1]) = Some("temp" :> 21000 @@ "sal" :> 30000)
    /\ StationsAfter[1].current.dict = ("do" :> 5000 @@ "temp" :> 21000 @@ "sal" :> 30000)

RequestSet == {requests[i] : i \in 1..Len(requests)}

\* the .ocean feed of the station gave no numeric reading
NoOceanReading(station) ==
    \/ IsNone(ParseOceanFeed(upstream.ocean[station.id]))
    \/ DOMAIN Get(ParseOceanFeed(upstream.ocean[station.id])) \cap OceanFields = {}

\* C10: whenever the .ocean feed of a station yields no numeric reading, the .txt
\* feed is fetched and parsed, and a valid water temperature of it is merged
\* into the station's current.temp.
C10_FallbackWhenNoOceanReading ==
    LatestRewritten =>
        \A i \in 1..Len(StationsBefore) :
            NoOceanReading(StationsBefore[i]) =>
                /\ <<"txt", StationsBefore[i].id>> \in RequestSet
                /\ ~IsNone(ParseTxtFeed(upstream.txt[StationsBefore[i].id])) =>
                      /\ StationsAfter[i].current.kind = "dict"
                      /\ "temp" \in DOMAIN StationsAfter[i].current.dict
                      /\ StationsAfter[i].current.dict["temp"] =
                            Get(ParseTxtFeed(upstream.txt[StationsBefore[i].id]))["temp"]

(***************************************************************************)
(* SpecExtract: one run of one per-category updater on a discovery answer. *)
(***************************************************************************)
MaxItems == 2

PointGeom(lon, lat) ==
    [kind |-> "object", type |-> "Point", point |-> Some(<<Some(lon), Some(lat)>>),
     line |-> <<>>]
LineGeom(type, line) ==
    [kind |-> "object", type |-> type, point |-> None, line |-> line]
NoGeom == [kind |-> "absent", type |-> "", point |-> None, line |-> <<>>]
NullGeom == [kind |-> "null", type |-> "", point |-> None, line |-> <<>>]

GulfLine ==
    << <<BaseLon, BaseLat>>, <<BaseLon + 1005, BaseLat + 2015>>,
       <<BaseLon + 2025, BaseLat + 4035>> >>
GulfBox == <<BaseLon, BaseLat, BaseLon + 2025, BaseLat + 4035>>

ManyVars ==
    <<"wind_speed", "wind_direction", "wave_height", "air_pressure", "air_temperature",
      "sea_surface_temperature", "dew_point", "visibility", "tide", "salinity",
      "dissolved_oxygen", "ph">>

DrifterSource == "https://erddap.aoml.noaa.gov/gdp/erddap/tabledap/drifter_6hour_qc/"
GliderSource == "https://gliders.ioos.us/erddap/tabledap/ru29-20240501T0000"

BaseProps ==
    [title |-> AbsentVal, vars |-> <<>>, src |-> "", org |-> "", datetime |-> AbsentVal,
     start |-> AbsentVal, end |-> AbsentVal, desc |-> ""]

BaseItem == [id |-> "", geometry |-> NoGeom, props |-> BaseProps, bbox |-> None, links |-> <<>>]

ItemBuoy ==
    [BaseItem EXCEPT
        !.id = "NDBC_42001", !.geometry = PointGeom(BaseLon, BaseLat),
        !.props = [BaseProps EXCEPT !.title = StrVal("Mid Gulf Buoy"), !.vars = ManyVars,
                                    !.src = DrifterSource, !.org = "NDBC",
                                    !.datetime = StrVal("2024-05-01T00:00:00Z"),
                                    !.desc = "Mid Gulf"],
        !.links = <<[rel |-> "self", href |-> "https://example.org/items/42001"],
                    [rel |-> "alternate", href |-> "https://example.org/42001.html"]>>]

ItemTide ==
    [BaseItem EXCEPT
        !.id = "8761724", !.geometry = PointGeom(BaseLon + 15, BaseLat + 25),
        !.props = [BaseProps EXCEPT !.datetime = NullVal,
                                    !.start = StrVal("2023-01-01T00:00:00Z")]]

ItemGlider ==
    [BaseItem EXCEPT
        !.id = "ru29-20240501T0000", !.geometry = LineGeom("LineString", GulfLine),
        !.props = [BaseProps EXCEPT !.title = StrVal("Slocum Glider RU29"),
                                    !.src = GliderSource,
                                    !.start = StrVal("2024-05-01T00:00:00Z"),
                                    !.end = StrVal("2024-06-01T00:00:00Z")],
        !.bbox = Some(GulfBox)]

ItemMooring ==
    [BaseItem EXCEPT
        !.id = "USF_C10", !.geometry = LineGeom("MultiPoint", SubSeq(GulfLine, 1, 2)),
        !.props = [BaseProps EXCEPT !.title = StrVal("USF Mooring C10"),
                                    !.datetime = StrVal("2025-01-15T12:00:00Z")]]

ItemBox ==
    [BaseItem EXCEPT
        !.id = "sg650", !.geometry = LineGeom("Polygon", <<>>),
        !.props = [BaseProps EXCEPT !.title = StrVal("SG650 survey box")],
        !.bbox = Some(GulfBox)]

ItemNoGeometry ==
    [BaseItem EXCEPT !.id = "cruise-7",
                     !.props = [BaseProps EXCEPT !.title = StrVal("Cruise report")]]

ItemNullGeometry ==
    [BaseItem EXCEPT !.id = "spray-12", !.geometry = NullGeom,
                     !.props = [BaseProps EXCEPT !.title = StrVal("Spray glider 12")]]

ItemNoCoordinates ==
    [BaseItem EXCEPT !.id = "NDBC_42002",
                     !.geometry = [PointGeom(0, 0) EXCEPT !.point = None]]

ItemOneCoordinate ==
    [BaseItem EXCEPT !.id = "NDBC_42003",
                     !.geometry = [PointGeom(0, 0) EXCEPT !.point = Some(<<Some(BaseLon)>>)]]

ItemNullTitle ==
    [BaseItem EXCEPT !.id = "NDBC_42004", !.geometry = PointGeom(BaseLon, BaseLat),
                     !.props = [BaseProps EXCEPT !.title = NullVal,
                                                 !.datetime = StrVal("n/a")]]

ItemVocabulary ==
    {ItemBuoy, ItemTide, ItemGlider, ItemMooring, ItemBox, ItemNoGeometry,
     ItemNullGeometry, ItemNoCoordinates, ItemOneCoordinate, ItemNullTitle}

\* what the catalogue may answer: the same answer for every collection
DiscoveryAnswers ==
    {[kind |-> "failed", features |-> <<>>], [kind |-> "nofeatures", features |-> <<>>]}
    \cup {[kind |-> "ok", features |-> fs] : fs \in SeqsUpTo(ItemVocabulary, MaxItems)}

GoodMetText ==
    MetText(ValuesRow(MetHeader, DateGood, "WTMP" :> "19.5" @@ "WSPD" :> "5.2"))

GliderRows ==
    << <<"2024-05-01T00:00:00Z", Some(BaseLat), Some(BaseLon)>>,
       <<"2024-05-01T01:00:00Z", None, None>>,
       <<"2024-05-01T02:00:00Z", Some(BaseLat + 1015), Some(BaseLon + 2025)>> >>

DrifterRows ==
    << <<Some(BaseLat), Some(BaseLon)>>, <<None, Some(BaseLon)>>,
       <<Some(BaseLat + 1015), Some(BaseLon + 2025)>> >>

\* the sources of live values and tracks: every one down, or every one up
SecondaryDown ==
    [txt |-> EmptyDict, levels |-> EmptyDict, tracks |-> EmptyDict, drifts |-> EmptyDict,
     currents |-> None]
SecondaryUp ==
    [txt |-> ("42001" :> GoodMetText),
     levels |-> ("8761724" :> Some([data |-> <<[v |-> "0.512", t |-> "2024-05-01 00:00"]>>])
                 @@ "42001" :> Some([data |-> <<[v |-> "", t |-> "2024-05-01 00:06"]>>])),
     tracks |-> ("ru29-20240501T0000" :> Some(GliderRows)),
     drifts |-> (RStrip(DrifterSource) :> Some(DrifterRows)),
     currents |-> Some("{\"table\": {}}")]

\* a document left by an earlier run
OldDoc ==
    DocFile([key |-> "old", updated |-> 0, count |-> 1,
             items |-> <<[id |-> "kept from the last run"]>>])

Upstream(now, answers, secondary) ==
    [now |-> now, discovery |-> answers, ocean |-> EmptyDict, txt |-> secondary.txt,
     levels |-> secondary.levels, tracks |-> secondary.tracks, drifts |-> secondary.drifts,
     currents |-> secondary.currents]

InitExtract ==
    /\ pc = "start"
    /\ files \in {[n \in FileNames |-> Absent], [n \in FileNames |-> OldDoc]}
    /\ \E answer \in DiscoveryAnswers, secondary \in {SecondaryDown, SecondaryUp} :
          upstream = Upstream(1, [c \in Collections |-> answer], secondary)
    /\ requests = <<>>
    /\ result = None
    /\ before = files

SaveFaults == {"none", "open", "dump", "stat"}

ExtractStep(fn, name, fault, out) ==
    /\ pc' = "done"
    /\ files' = [files EXCEPT ![name] = out.file]
    /\ requests' = out.requests
    /\ result' = [fn |-> fn, file |-> name, fault |-> fault, raised |-> out.raised]
    /\ UNCHANGED <<upstream, before>>

RunUpdateIoosSensors ==
    /\ pc = "start"
    /\ \E fault \in SaveFaults :
          ExtractStep("update_ioos_sensors", "ioos_sensors.json", fault,
                      UpdateIoosSensors(files["ioos_sensors.json"], upstream, fault))

RunUpdateNdbcMet ==
    /\ pc = "start"
    /\ \E fault \in SaveFaults :
          ExtractStep("update_ndbc_met", "ndbc_met.json", fault,
                      UpdateNdbcMet(files["ndbc_met.json"], upstream, fault))

RunUpdateCoops ==
    /\ pc = "start"
    /\ \E fault \in SaveFaults :
          ExtractStep("update_coops", "coops.json", fault,
                      UpdateCoops(files["coops.json"], upstream, fault))

RunUpdateGliders ==
    /\ pc = "start"
    /\ \E fault \in SaveFaults :
          ExtractStep("update_gliders", "gliders.json", fault,
                      UpdateGliders(files["gliders.json"], upstream, fault))

RunUpdateDrifters ==
    /\ pc = "start"
    /\ \E fault \in SaveFaults :
          ExtractStep("update_drifters", "drifters.json", fault,
                      UpdateDrifters(files["drifters.json"], upstream, fault))

RunUpdateIncidents ==
    /\ pc = "start"
    /\ \E fault \in SaveFaults :
          ExtractStep("update_incidents", "incidents.json", fault,
                      UpdateIncidents(files["incidents.json"], upstream, fault))

RunUpdatePmel ==
    /\ pc = "start"
    /\ \E fault \in SaveFaults :
          ExtractStep("update_pmel", "pmel.json", fault,
                      UpdatePmel(files["pmel.json"], upstream, fault))

NextExtract ==
    \/ RunUpdateIoosSensors
    \/ RunUpdateNdbcMet
    \/ RunUpdateCoops
    \/ RunUpdateGliders
    \/ RunUpdateDrifters
    \/ RunUpdateIncidents
    \/ RunUpdatePmel

SpecExtract == InitExtract /\ [][NextExtract]_vars

(***************************************************************************)
(* SpecFetchCap: one run of update_ndbc_met or update_coops on a long list *)
(* of point features, with the live-value source answering for some of the *)
(* stations.                                                               *)
(***************************************************************************)
MaxFeatures == 400

FeatureCounts ==
    {0, 1, 2, MaxFeatures}
    \cup (CoopsFetchCap - 1)..(CoopsFetchCap + 2)
    \cup (MetFetchCap - 1)..(MetFetchCap + 2)

StationOf(i) == ToString(40000 + i)

PointFeature(i) ==
    [BaseItem EXCEPT !.id = "NDBC_" \o StationOf(i),
                     !.geometry = PointGeom(BaseLon + 10 * i, BaseLat)]

\* which stations the live-value source answers for
AnswerPatterns == {"all", "none", "all but the first", "odd"}

Answering(pattern, n) ==
    CASE pattern = "all" -> 1..n
      [] pattern = "none" -> {}
      [] pattern = "all but the first" -> 2..n
      [] pattern = "odd" -> {i \in 1..n : i % 2 = 1}

LiveAnswers(pattern, n) ==
    [txt |-> [sid \in {StationOf(i) : i \in Answering(pattern, n)} |-> GoodMetText],
     levels |-> [sid \in {StationOf(i) : i \in Answering(pattern, n)} |->
                    Some([data |-> <<[v |-> "0.512", t |-> "2024-05-01 00:00"]>>])],
     tracks |-> EmptyDict, drifts |-> EmptyDict, currents |-> None]

InitFetchCap ==
    /\ pc = "start"
    /\ files = [n \in FileNames |-> Absent]
    /\ \E n \in FeatureCounts, pattern \in AnswerPatterns :
          upstream = Upstream(1,
                        [c \in Collections |->
                            [kind |-> "ok", features |-> [i \in 1..n |-> PointFeature(i)]]],
                        LiveAnswers(pattern, n))
    /\ requests = <<>>
    /\ result = None
    /\ before = files

NextFetchCap == RunUpdateNdbcMet \/ RunUpdateCoops

SpecFetchCap == InitFetchCap /\ [][NextFetchCap]_vars

(***************************************************************************)
(* main() of update_data.py: the nine updaters, each inside its own        *)
(* try/except Exception.  pc is the updater main() is about to call, then  *)
(* "summary" and "done"; "aborted" is main() left by an exception.  result *)
(* is the list of the calls made so far, [fn, file, raised] each.          *)
(***************************************************************************)
MainOrder ==
    <<"update_ndbc_hypoxia", "update_currents", "update_ioos_sensors", "update_ndbc_met",
      "update_coops", "update_gliders", "update_drifters", "update_incidents",
      "update_pmel">>

\* the positions of main()
Positions == {MainOrder[k] : k \in 1..Len(MainOrder)} \cup {"summary", "done", "aborted"}

\* what main() does after the call at position k of MainOrder has returned
After(k) == IF k < Len(MainOrder) THEN MainOrder[k + 1] ELSE "summary"

\* a call outside any try block: an exception leaves main()
HandlePropagating(k, raised) == IF raised THEN "aborted" ELSE After(k)

\* try: update_x() / except Exception as e: print(...): main() goes on to the
\* next block whether the call raised or not
Handle(k, raised) == After(k)

MainStep(k, name, out) ==
    /\ pc' = Handle(k, out.raised)
    /\ files' = [files EXCEPT ![name] = out.file]
    /\ requests' = requests \o out.requests
    /\ result' = Append(result, [fn |-> MainOrder[k], file |-> name, raised |-> out.raised])
    /\ UNCHANGED <<upstream, before>>

\* where the operating system may fail a write during a run of main()
MainFaults == {"none", "open", "dump"}

MainUpdateNdbcHypoxia ==
    /\ pc = "update_ndbc_hypoxia"
    /\ \E fault \in MainFaults :
          MainStep(1, "latest.json", UpdateNdbcHypoxia(files["latest.json"], upstream, fault))

MainUpdateCurrents ==
    /\ pc = "update_currents"
    /\ \E fault \in MainFaults :
          MainStep(2, "currents.json", UpdateCurrents(files["currents.json"], upstream, fault))

MainUpdateIoosSensors ==
    /\ pc = "update_ioos_sensors"
    /\ \E fault \in MainFaults :
          MainStep(3, "ioos_sensors.json",
                   UpdateIoosSensors(files["ioos_sensors.json"], upstream, fault))

MainUpdateNdbcMet ==
    /\ pc = "update_ndbc_met"
    /\ \E fault \in MainFaults :
          MainStep(4, "ndbc_met.json", UpdateNdbcMet(files["ndbc_met.json"], upstream, fault))

MainUpdateCoops ==
    /\ pc = "update_coops"
    /\ \E fault \in MainFaults :
          MainStep(5, "coops.json", UpdateCoops(files["coops.json"], upstream, fault))

MainUpdateGliders ==
    /\ pc = "update_gliders"
    /\ \E fault \in MainFaults :
          MainStep(6, "gliders.json", UpdateGliders(files["gliders.json"], upstream, fault))

MainUpdateDrifters ==
    /\ pc = "update_drifters"
    /\ \E fault \in MainFaults :
          MainStep(7, "drifters.json", UpdateDrifters(files["drifters.json"], upstream, fault))

MainUpdateIncidents ==
    /\ pc = "update_incidents"
    /\ \E fault \in MainFaults :
          MainStep(8, "incidents.json",
                   UpdateIncidents(files["incidents.json"], upstream, fault))

MainUpdatePmel ==
    /\ pc = "update_pmel"
    /\ \E fault \in MainFaults :
          MainStep(9, "pmel.json", UpdatePmel(files["pmel.json"], upstream, fault))

\* the elapsed time and the list of data files are printed; main() returns
MainSummary ==
    /\ pc = "summary"
    /\ pc' = "done"
    /\ UNCHANGED <<files, upstream, requests, result, before>>

(***************************************************************************)
(* SpecMain: one run of main() in one of three worlds.                     *)
(***************************************************************************)
OneStation ==
    <<[current |-> DictCurrent("do" :> 5000 @@ "temp" :> 20000),
       ocean |-> OceanText(ValuesRow(OceanHeader, DateGood,
                                     "O2PPM" :> "4.1" @@ "OTMP" :> "22.5")),
       txt |-> GoodMetText]>>

OldFiles(latest) == [n \in FileNames |-> IF n = "latest.json" THEN latest ELSE OldDoc]

\* every source answers and every feature is well formed
HealthyWorld ==
    [files |-> OldFiles(LatestOf(OneStation)),
     upstream |->
        [Upstream(1, [c \in Collections |->
                        [kind |-> "ok",
                         features |-> <<ItemBuoy, ItemOneCoordinate, ItemGlider>>]],
                  SecondaryUp)
         EXCEPT !.ocean = (StationId(1) :> OneStation[1].ocean)]]

\* no source answers
OfflineWorld ==
    [files |-> OldFiles(LatestOf(OneStation)),
     upstream |->
        [Upstream(1, [c \in Collections |-> [kind |-> "failed", features |-> <<>>]],
                  SecondaryDown)
         EXCEPT !.ocean = (StationId(1) :> None), !.txt = (StationId(1) :> None)]]

\* latest.json is not JSON and every collection has a feature whose geometry
\* is null
MalformedWorld ==
    [files |-> OldFiles(Truncated),
     upstream |->
        Upstream(1, [c \in Collections |->
                        [kind |-> "ok", features |-> <<ItemBuoy, ItemNullGeometry>>]],
                 SecondaryUp)]

MainWorlds == {HealthyWorld, OfflineWorld, MalformedWorld}

InitMain ==
    /\ pc = MainOrder[1]
    /\ \E w \in MainWorlds : files = w.files /\ upstream = w.upstream
    /\ requests = <<>>
    /\ result = <<>>
    /\ before = files

NextMain ==
    \/ MainUpdateNdbcHypoxia
    \/ MainUpdateCurrents
    \/ MainUpdateIoosSensors
    \/ MainUpdateNdbcMet
    \/ MainUpdateCoops
    \/ MainUpdateGliders
    \/ MainUpdateDrifters
    \/ MainUpdateIncidents
    \/ MainUpdatePmel
    \/ MainSummary

SpecMain == InitMain /\ [][NextMain]_vars

\* main() is a sequential program that nothing interrupts: the statement it
\* stands at is executed, so its position moves on until it has returned or
\* an exception has left it
Advance == pc \notin {"done", "aborted"} /\ pc' \in (Positions \ {pc})

SpecMainFair == SpecMain /\ WF_pc(Advance)

(***************************************************************************)
(* Claims about the per-category documents                                 *)
(***************************************************************************)
\* the document the updater of this run has written, if it has
Written == pc = "done" /\ files[result.file].kind = "doc"
              /\ files[result.file].doc.updated = upstream.now
WrittenDoc == files[result.file].doc

\* C3: every document a per-category updater writes has `count` equal to the
\* length of its record list, whatever the discovery answer was and however
\* many features were skipped
C3_CountIsLength == Written => WrittenDoc.count = Len(WrittenDoc.items)

\* a drifters document with one record of a two-point track, built from two
\* features of which one was skipped
C3_Witness ==
    /\ Written
    /\ result.fn = "update_drifters"
    /\ Len(upstream.discovery["NOAA_GDP"].features) = 2
    /\ Len(WrittenDoc.items) = 1
    /\ WrittenDoc.items[1].count = 2

\* the cap of the secondary fetch of the updater that ran
FetchCapOf(fn) == IF fn = "update_ndbc_met" THEN MetFetchCap ELSE CoopsFetchCap

\* C6: the live-value fetch is attempted for the leading `cap` records only:
\* at most `cap` requests per run, and no record after the first `cap`
\* carries a `current` (200 for buoys, 100 for tide stations)
C6_FetchOnlyLeadingCap ==
    pc = "done" =>
        /\ Len(requests) <= FetchCapOf(result.fn)
        /\ Written =>
              \A i \in 1..Len(WrittenDoc.items) :
                  i > FetchCapOf(result.fn) => IsNone(WrittenDoc.items[i].current)

(***************************************************************************)
(* Claims about main()                                                     *)
(***************************************************************************)
\* the calls made so far are the leading updaters of MainOrder, once each and
\* in that order, main() stands at the one after them, and no exception has
\* left main()
InOrderSoFar ==
    /\ Len(result) <= Len(MainOrder)
    /\ \A i \in 1..Len(result) : result[i].fn = MainOrder[i]
    /\ pc # "aborted"
    /\ IF pc \in {"summary", "done"} THEN Len(result) = Len(MainOrder)
       ELSE Len(result) < Len(MainOrder) /\ pc = MainOrder[Len(result) + 1]

\* C1: main() calls the nine updaters once each in the fixed order, whichever
\* of them raise, and finishes without an exception leaving it
C1_NineInOrderDespiteFailures == []InOrderSoFar /\ <>(pc = "done")

\* main() has finished a run in which hypoxia, sensors, tide stations and
\* probes raised and the other five did not
C1_Witness ==
    /\ pc = "done"
    /\ Len(result) = Len(MainOrder)
    /\ {i \in 1..Len(result) : result[i].raised} = {1, 3, 5, 9}

\* C2: an updater that raised has left its output file as it was before the
\* run, wherever in it the failure occurred
C2_FailureLeavesFileUntouched ==
    \A i \in 1..Len(result) :
        result[i].raised => files[result[i].file] = before[result[i].file]

(***************************************************************************)
(* Claims about the features an updater skips                              *)
(***************************************************************************)
PointBased ==
    {"update_ioos_sensors", "update_ndbc_met", "update_coops", "update_incidents",
     "update_pmel"}

CollectionOf(fn) ==
    CASE fn = "update_ioos_sensors" -> "IOOS_SENSORS"
      [] fn = "update_ndbc_met" -> "NDBC"
      [] fn = "update_coops" -> "COOPS"
      [] fn = "update_gliders" -> "IOOS"
      [] fn = "update_drifters" -> "NOAA_GDP"
      [] fn = "update_incidents" -> "INCIDENT_NEWS"
      [] fn = "update_pmel" -> "PMEL"

\* the features the updater of this run was given
Discovered == upstream.discovery[CollectionOf(result.fn)].features

\* the geometry types the updater turns into a record
SupportedTypes(fn) ==
    IF fn = "update_ioos_sensors" THEN {"Point", "MultiPoint"} ELSE {"Point"}

GeometryMissing(item) == item.geometry.kind \in {"absent", "null"}
GeometrySupported(fn, item) ==
    item.geometry.kind = "object" /\ item.geometry.type \in SupportedTypes(fn)

\* a feature with nothing wrong but, possibly, its geometry: one of a supported
\* type has its coordinates and a title that is a string or absent
SoundButGeometry(fn, item) ==
    GeometrySupported(fn, item) =>
        /\ item.props.title.kind # "null"
        /\ IF item.geometry.type = "Point"
           THEN ~IsNone(item.geometry.point) /\ Len(Get(item.geometry.point)) = 2
                /\ Roundable(Get(item.geometry.point))
           ELSE item.geometry.line # <<>>

\* the id the updater gives the record of a feature
RecordId(fn, item) ==
    IF fn \in {"update_ndbc_met", "update_coops"} THEN LastSegment(item.id) ELSE item.id

\* the ids of the features of a supported geometry, in discovery order
ExpectedIds(fn, items) ==
    LET Kept(item) == GeometrySupported(fn, item)
        kept == SelectSeq(items, Kept)
    IN [i \in 1..Len(kept) |-> RecordId(fn, kept[i])]

WrittenIds == [i \in 1..Len(WrittenDoc.items) |-> WrittenDoc.items[i].id]

\* a run of a point-based updater, nothing failing at the write, on features
\* that are sound but for their geometry
GeometryCase ==
    /\ pc = "done"
    /\ result.fn \in PointBased
    /\ result.fault = "none"
    /\ \A i \in 1..Len(Discovered) : SoundButGeometry(result.fn, Discovered[i])

\* C11: in a point-based updater a feature without geometry (key absent or
\* null) or of an unsupported type is left out, every feature of a supported
\* geometry is in the written document in discovery order, and such a feature
\* never aborts the updater
C11_GeometryDefectsAreSkipped ==
    GeometryCase => (~result.raised /\ Written
                     /\ WrittenIds = ExpectedIds(result.fn, Discovered))

(***************************************************************************)
(* SpecIncidents: one run of update_incidents on point features whose      *)
(* dates are present, absent, null or malformed.                           *)
(***************************************************************************)
MaxIncidents == 3

\* the "datetime" and "start_datetime" of an incident feature
IncidentDates ==
    { [datetime |-> StrVal("2024-05-01T00:00:00Z"), start |-> AbsentVal],
      [datetime |-> StrVal("2025-01-15T12:00:00Z"), start |-> AbsentVal],
      [datetime |-> StrVal("2024-05-01"), start |-> AbsentVal],
      [datetime |-> StrVal("n/a"), start |-> AbsentVal],
      [datetime |-> AbsentVal, start |-> StrVal("2023-11-30T08:00:00Z")],
      [datetime |-> AbsentVal, start |-> AbsentVal],
      [datetime |-> NullVal, start |-> StrVal("2023-11-30T08:00:00Z")] }

IncidentFeature(i, dates) ==
    [BaseItem EXCEPT
        !.id = "incident-" \o ToString(i),
        !.geometry = PointGeom(BaseLon + 10 * i, BaseLat),
        !.props = [BaseProps EXCEPT !.title = StrVal("Spill " \o ToString(i)),
                                    !.datetime = dates.datetime, !.start = dates.start]]

InitIncidents ==
    /\ pc = "start"
    /\ files = [n \in FileNames |-> OldDoc]
    /\ \E ds \in SeqsUpTo(IncidentDates, MaxIncidents) :
          upstream = Upstream(1,
                        [c \in Collections |->
                            [kind |-> "ok",
                             features |-> [i \in 1..Len(ds) |-> IncidentFeature(i, ds[i])]]],
                        SecondaryDown)
    /\ requests = <<>>
    /\ result = None
    /\ before = files

NextIncidents == RunUpdateIncidents

SpecIncidents == InitIncidents /\ [][NextIncidents]_vars

(***************************************************************************)
(* Claims about the order of the incidents                                 *)
(***************************************************************************)
\* a record without a date: the date is null or the empty string
NoDate(rec) == rec.date.kind = "null" \/ rec.date.str = ""

\* the list is in descending order of date, the records without one last
DescendingByDate(list) ==
    \A i, j \in 1..Len(list) :
        i < j => \/ NoDate(list[j])
                 \/ ~NoDate(list[i]) /\ ~StrLess(list[i].date.str, list[j].date.str)

\* C12: whatever the dates of the discovered incident features (absent, null
\* and malformed ones included), update_incidents writes a document whose
\* list is in descending order of date with the records without a date last
C12_IncidentsNewestFirst ==
    (pc = "done" /\ result.fn = "update_incidents" /\ result.fault = "none")
        => /\ ~result.raised
           /\ Written
           /\ Len(WrittenDoc.items) = Len(Discovered)
           /\ DescendingByDate(WrittenDoc.items)

(***************************************************************************)
(* Claims about a failed discovery                                         *)
(***************************************************************************)
\* the discovery query of the updater of this run failed: no answer, or an
\* answer without the feature list
DiscoveryFailed == upstream.discovery[CollectionOf(result.fn)].kind # "ok"

\* C13: when the discovery query of a category fails, the category's file
\* keeps the records of the last successful run; it is never replaced by an
\* empty document
C13_FailedDiscoveryKeepsFile ==
    (pc = "done" /\ DiscoveryFailed /\ result.fault = "none")
        => files[result.file] = before[result.file]

(***************************************************************************)
(* update_stations.py: its own copies of the feed parsers, the per-station *)
(* read step update_station, and its fetch_url.                            *)
(***************************************************************************)
\* get_val(col_name) of parse_ocean_feed, for the row `parts`
StationsGetVal(parts, colMap, colName) ==
    LET idx == ColGet(colMap, colName, -1) IN
    IF colName \notin DOMAIN colMap \/ idx >= Len(parts) THEN None
    ELSE LET valStr == parts[idx + 1]
             v == ParseFloat(valStr)
         IN IF valStr \in Sentinels THEN None
            ELSE IF IsNone(v) THEN None
            ELSE IF Get(v) >= 99000 /\ colName \notin {"DEPTH"} THEN None
            ELSE v

\* one iteration of the row loop of parse_ocean_feed
StationsOceanRow(parts, colMap, st) ==
    IF Len(parts) < 5 THEN st
    ELSE LET d == RowDate(parts, colMap) IN
         IF IsNone(d) THEN st
         ELSE LET dt == Get(d)
                  ts == IF IsNone(st.timestamp)
                        THEN MakeDatetime(dt[1], dt[2], dt[3], dt[4], dt[5])
                        ELSE st.timestamp
                  rd == [f \in OceanFields |->
                            IF IsNone(st.readings[f])
                            THEN StationsGetVal(parts, colMap, OceanColumn(f))
                            ELSE st.readings[f]]
              IN [readings |-> rd, timestamp |-> ts,
                  stop |-> ~IsNone(rd["do"]) /\ ~IsNone(rd["temp"])]

RECURSIVE StationsOceanScan(_, _, _, _)
StationsOceanScan(rows, colMap, k, st) ==
    IF k > Len(rows) THEN st
    ELSE LET st2 == StationsOceanRow(rows[k], colMap, st) IN
         IF st2.stop THEN st2 ELSE StationsOceanScan(rows, colMap, k + 1, st2)

\* the tail of parse_ocean_feed: the dict built from the loop's final state
StationsOceanResult(st) ==
    LET kept == {f \in OceanFields : ~IsNone(st.readings[f])}
        res == [k \in kept |-> Get(st.readings[k])]
        res2 == IF IsNone(st.timestamp) THEN res
                ELSE DictSet(res, "timestamp", Get(st.timestamp))
    IN IF DOMAIN res2 = {} THEN None ELSE Some(res2)

\* parse_ocean_feed(text): None or a dict
StationsParseOceanFeed(text) ==
    IF IsNone(text) \/ Get(text) = <<>> THEN None
    ELSE IF Len(Get(text)) < 3 THEN None
    ELSE StationsOceanResult(StationsOceanScan(Slice(Get(text), 2, 50), ColMap(Get(text)[1]), 1,
                               [readings |-> [f \in OceanFields |-> None],
                                timestamp |-> None, stop |-> FALSE]))

\* the body of the row loop of parse_txt_feed: the value the row returns,
\* None when the loop goes on to the next row
StationsTxtRow(parts, colMap) ==
    LET wtmpIdx == ColGet(colMap, "WTMP", 0) IN
    IF Len(parts) < 5 THEN None
    ELSE IF "WTMP" \in DOMAIN colMap /\ wtmpIdx # 0 /\ wtmpIdx < Len(parts)
    THEN LET v == ParseFloat(parts[wtmpIdx + 1]) IN
         IF IsNone(v) THEN None
         ELSE IF Get(v) < 50000 /\ parts[wtmpIdx + 1] # "MM" THEN v
         ELSE None
    ELSE None

RECURSIVE StationsTxtScan(_, _, _)
StationsTxtScan(rows, colMap, k) ==
    IF k > Len(rows) THEN None
    ELSE IF ~IsNone(StationsTxtRow(rows[k], colMap))
    THEN Some([f \in {"temp"} |-> Get(StationsTxtRow(rows[k], colMap))])
    ELSE StationsTxtScan(rows, colMap, k + 1)

\* parse_txt_feed(text): None or {"temp": v}
StationsParseTxtFeed(text) ==
    IF IsNone(text) \/ Get(text) = <<>> THEN None
    ELSE LET lines == Get(text) IN
         IF Len(lines) < 3 THEN None
         ELSE StationsTxtScan(Slice(lines, 2, 10), ColMap(lines[1]), 1)


\* The exception classes a request can end in, each with its base class as
\* Python defines it: urllib.error.HTTPError < URLError < OSError,
\* TimeoutError < OSError, http.client.IncompleteRead and InvalidURL <
\* HTTPException < Exception, ValueError < Exception.
BaseClass ==
    [c \in {"HTTPError", "URLError", "TimeoutError", "OSError",
            "IncompleteRead", "InvalidURL", "HTTPException", "ValueError",
            "Exception"} |->
        CASE c = "HTTPError" -> "URLError"
          [] c = "URLError" -> "OSError"
          [] c = "TimeoutError" -> "OSError"
          [] c = "OSError" -> "Exception"
          [] c = "IncompleteRead" -> "HTTPException"
          [] c = "InvalidURL" -> "HTTPException"
          [] c = "HTTPException" -> "Exception"
          [] c = "ValueError" -> "Exception"
          [] OTHER -> "BaseException"]

\* isinstance(exc, cls) for an exception of class c
RECURSIVE IsInstance(_, _)
IsInstance(c, cls) ==
    IF c = cls THEN TRUE
    ELSE IF c \notin DOMAIN BaseClass THEN FALSE
    ELSE IsInstance(BaseClass[c], cls)

\* `except (A, B, ...)`: the handler takes the exception
Catches(handler, c) == \E cls \in handler : IsInstance(c, cls)

\* A response is [exc |-> None, body |-> lines] when urlopen and read
\* succeed, and [exc |-> Some(class), body |-> <<>>] when one of them raises.
Answer(body) == [exc |-> None, body |-> body]
Failure(c) == [exc |-> Some(c), body |-> <<>>]

\* what a call gives back: a value, or the exception that leaves it
Returned(v) == [raised |-> FALSE, exc |-> None, value |-> v]
Raised(c) == [raised |-> TRUE, exc |-> Some(c), value |-> None]

\* the try/except of a fetch_url with the given except clause
TryFetch(handler, resp) ==
    IF IsNone(resp.exc) THEN Returned(Some(resp.body))
    ELSE IF Catches(handler, Get(resp.exc)) THEN Returned(None)
    ELSE Raised(Get(resp.exc))

\* update_data.fetch_url: except Exception
FetchUrl(resp) == TryFetch({"Exception"}, resp)

\* update_stations.fetch_url: except (URLError, HTTPError, TimeoutError, OSError)
StationsFetchUrl(resp) ==
    TryFetch({"URLError", "HTTPError", "TimeoutError", "OSError"}, resp)

\* update_stations.update_station(station) against the two responses
UpdateStation(ocean, txt) ==
    LET oceanText == StationsFetchUrl(ocean) IN
    IF oceanText.raised THEN oceanText
    ELSE LET readings == StationsParseOceanFeed(oceanText.value) IN
         IF ~Falsy(readings) THEN Returned(readings)
         ELSE LET txtText == StationsFetchUrl(txt) IN
              IF txtText.raised THEN txtText
              ELSE Returned(StationsParseTxtFeed(txtText.value))

\* the read step of one station in update_data.update_ndbc_hypoxia
ReadStation(ocean, txt) ==
    LET oceanText == FetchUrl(ocean) IN
    IF oceanText.raised THEN oceanText
    ELSE LET readings == ParseOceanFeed(oceanText.value) IN
         IF ~Falsy(readings) THEN Returned(readings)
         ELSE LET txtText == FetchUrl(txt) IN
              IF txtText.raised THEN txtText
              ELSE Returned(ParseTxtFeed(txtText.value))

(***************************************************************************)
(* SpecStation: one station's two requests, answered once, and the four    *)
(* functions that consume them, each called once, in any order.            *)
(***************************************************************************)
RequestFailures ==
    {"HTTPError", "URLError", "TimeoutError", "OSError", "IncompleteRead",
     "InvalidURL"}

Responses(texts) ==
    {Answer(Get(t)) : t \in texts \ {None}}
        \cup {Failure(c) : c \in RequestFailures}

StationCalls ==
    {"fetch_url", "update_stations.fetch_url", "update_ndbc_hypoxia.read",
     "update_station"}

InitStation ==
    /\ pc = "calling"
    /\ files = EmptyDict
    /\ upstream \in [ocean : Responses(OceanFeeds), txt : Responses(TxtFeeds)]
    /\ requests = <<>>
    /\ result = EmptyDict
    /\ before = EmptyDict

CallStep(fn, out) ==
    /\ pc = "calling"
    /\ fn \notin DOMAIN result
    /\ result' = DictSet(result, fn, out)
    /\ pc' = IF DOMAIN result' = StationCalls THEN "called" ELSE "calling"
    /\ UNCHANGED <<files, upstream, requests, before>>

CallFetchUrl == CallStep("fetch_url", FetchUrl(upstream.ocean))

CallStationsFetchUrl ==
    CallStep("update_stations.fetch_url", StationsFetchUrl(upstream.ocean))

CallReadStation ==
    CallStep("update_ndbc_hypoxia.read",
             ReadStation(upstream.ocean, upstream.txt))

CallUpdateStation ==
    CallStep("update_station", UpdateStation(upstream.ocean, upstream.txt))

NextStation ==
    \/ CallFetchUrl
    \/ CallStationsFetchUrl
    \/ CallReadStation
    \/ CallUpdateStation

SpecStation == InitStation /\ [][NextStation]_vars

\* C14: fetch_url, in update_data.py and in update_stations.py alike, hands
\* back text or None for every outcome of the request and never raises.
C14_FetchUrlNeverRaises ==
    \A fn \in {"fetch_url", "update_stations.fetch_url"} \cap DOMAIN result :
        ~result[fn].raised

\* C18: update_station and the read step of update_ndbc_hypoxia give the
\* same readings for the same ocean and fallback responses.
C18_BothCopiesReadAlike ==
    {"update_station", "update_ndbc_hypoxia.read"} \subseteq DOMAIN result
        => result["update_station"] = result["update_ndbc_hypoxia.read"]

(***************************************************************************)
(* SpecWindow: _parse_ocean_feed on feeds longer than its row window.      *)
(* A feed is laid out by a plan: the row from which each of do, temp and   *)
(* sal is first valid (0: never), whether the later rows hold further      *)
(* valid values, the row from which the date columns form a valid date     *)
(* (0: never) and what the rows before it look like.  The value in row k   *)
(* is k.5 and its minute is k, so the row a result came from can be read   *)
(* off the result.                                                         *)
(***************************************************************************)
WindowRows == 50

\* lines[2:50]: the number of data rows the loop can see
OceanWindow == 48

PlanFields == {"do", "temp", "sal"}

WindowPlans ==
    [first : [do : {0, 1, 3, 48, 49}, temp : {0, 1, 10, 49}, sal : {0, 2, 12}],
     repeat : BOOLEAN,
     firstDate : {0, 1, 4, 11},
     lead : {"short", "noint", "badmonth"}]

PlanValid(plan, f, k) ==
    /\ plan.first[f] # 0
    /\ k = plan.first[f] \/ (plan.repeat /\ k > plan.first[f])

PlanDate(plan, k) ==
    IF plan.firstDate # 0 /\ k >= plan.firstDate
    THEN <<"2024", "06", "15", "12", ToString(k)>>
    ELSE IF plan.lead = "noint" THEN DateNoInt ELSE DateBadMonth

PlanRow(plan, k) ==
    IF plan.lead = "short" /\ (plan.firstDate = 0 \/ k < plan.firstDate)
    THEN ShortRow
    ELSE ValuesRow(OceanHeader, PlanDate(plan, k),
                   [c \in {OceanColumn(f) : f \in {g \in PlanFields : PlanValid(plan, g, k)}}
                       |-> ToString(k) \o ".5"])

PlanText(plan) ==
    Some(<<OceanHeader, UnitsLine>> \o [k \in 1..WindowRows |-> PlanRow(plan, k)])

InitWindow ==
    /\ pc = "input"
    /\ files = EmptyDict
    /\ \E plan \in WindowPlans : upstream = [text |-> PlanText(plan), plan |-> plan]
    /\ requests = <<>>
    /\ result = None
    /\ before = files

NextWindow == RunParseOceanFeed

SpecWindow == InitWindow /\ [][NextWindow]_vars

\* the data rows the loop iterates over
ScanWindow(lines) ==
    [k \in 1..Min(OceanWindow, Len(lines) - 2) |-> lines[k + 2]]

\* a row the loop does not skip: five tokens or more, integer date columns
WellFormed(row) ==
    /\ Len(row) >= 5
    /\ \A i \in 1..5 : ~IsNone(ParseInt(row[i]))

\* the first row of `rows` in S, 0 when there is none
FirstIn(S) == IF S = {} THEN 0 ELSE CHOOSE k \in S : \A j \in S : k <= j

\* the first well-formed row in which the column of field f is valid
FirstValid(rows, colMap, f) ==
    FirstIn({k \in 1..Len(rows) :
                /\ WellFormed(rows[k])
                /\ ~IsNone(GetVal(rows[k], colMap, OceanColumn(f)))})

\* the calendar date of a well-formed row, None when there is no such date
DateOfRow(row) ==
    MakeDatetime(Get(ParseInt(row[1])), Get(ParseInt(row[2])),
                 Get(ParseInt(row[3])), Get(ParseInt(row[4])),
                 Get(ParseInt(row[5])))

\* the first row, among the first n, whose date columns form a valid date
FirstDated(rows, n) ==
    FirstIn({k \in 1..n : WellFormed(rows[k]) /\ ~IsNone(DateOfRow(rows[k]))})

\* the row the scan ends on: the first by which do and temp are both filled,
\* the last row of the window when there is none
StopRow(rows, firstDo, firstTemp) ==
    IF firstDo # 0 /\ firstTemp # 0
    THEN (IF firstDo > firstTemp THEN firstDo ELSE firstTemp)
    ELSE Len(rows)

WindowParsed == pc = "parsed" /\ result.fn = "_parse_ocean_feed" /\ "plan" \in DOMAIN upstream

\* the fields of the result, the timestamp apart
FieldsOf(value) == IF IsNone(value) THEN {} ELSE DOMAIN Get(value) \ {"timestamp"}

HasTimestamp(value) == ~IsNone(value) /\ "timestamp" \in DOMAIN Get(value)

\* every field of the result comes from the first valid row of its column,
\* and the fields present are those first valid no later than row `stop`
FieldsFirstValid(value, rows, colMap, stop) ==
    /\ FieldsOf(value) =
         {f \in OceanFields : FirstValid(rows, colMap, f) \in 1..stop}
    /\ \A f \in FieldsOf(value) :
         Get(value)[f] =
            Get(GetVal(rows[FirstValid(rows, colMap, f)], colMap, OceanColumn(f)))

\* the timestamp is that of row `dated`, absent when dated = 0
TimestampFrom(value, rows, dated) ==
    IF dated = 0 THEN ~HasTimestamp(value)
    ELSE HasTimestamp(value)
         /\ Get(value)["timestamp"] = Get(DateOfRow(rows[dated]))

ScanLaw(value, rows, colMap, stop) ==
    /\ FieldsFirstValid(value, rows, colMap, stop)
    /\ TimestampFrom(value, rows, FirstDated(rows, stop))

\* C15 (as amended): each field of the result has the value of the earliest
\* well-formed row of the 48-row window in which its column is valid; the
\* scan ends on the first row by which do and temp are both filled and no
\* later row contributes; the timestamp is that of the first row, among the
\* rows scanned, whose date columns form a valid date, and is absent when
\* no scanned row has one.
C15_FirstValidWinsWithinScan ==
    WindowParsed =>
        ScanLaw(result.value, ScanWindow(Get(upstream.text)),
                ColMap(Get(upstream.text)[1]),
                StopRow(ScanWindow(Get(upstream.text)),
                        FirstValid(ScanWindow(Get(upstream.text)),
                                   ColMap(Get(upstream.text)[1]), "do"),
                        FirstValid(ScanWindow(Get(upstream.text)),
                                   ColMap(Get(upstream.text)[1]), "temp")))

\* do first valid in row 3, temp first valid in row 10, dates valid from
\* row 4 on: the result holds do of row 3, temp of row 10 and the timestamp
\* of row 4
C15_Witness ==
    /\ WindowParsed
    /\ upstream.plan.first.do = 3
    /\ upstream.plan.first.temp = 10
    /\ upstream.plan.repeat
    /\ upstream.plan.firstDate = 4
    /\ upstream.plan.lead = "badmonth"
    /\ ~IsNone(result.value)
    /\ Get(result.value)["do"] = 3500
    /\ Get(result.value)["temp"] = 10500
    /\ Get(result.value)["timestamp"] = <<2024, 6, 15, 12, 4>>

\* C15 (as stated): the timestamp is that of the first row of the window
\* whose date columns form a valid date, whenever the window has one.
C15_TimestampOfFirstValidDate ==
    WindowParsed =>
        /\ FieldsFirstValid(result.value, ScanWindow(Get(upstream.text)),
                ColMap(Get(upstream.text)[1]),
                StopRow(ScanWindow(Get(upstream.text)),
                        FirstValid(ScanWindow(Get(upstream.text)),
                                   ColMap(Get(upstream.text)[1]), "do"),
                        FirstValid(ScanWindow(Get(upstream.text)),
                                   ColMap(Get(upstream.text)[1]), "temp")))
        /\ TimestampFrom(result.value, ScanWindow(Get(upstream.text)),
                FirstDated(ScanWindow(Get(upstream.text)),
                           Len(ScanWindow(Get(upstream.text)))))

(***************************************************************************)
(* SpecTwice: one extractor run twice in succession.  The upstream answers *)
(* stay as they are; only the clock moves between the runs.  No write      *)
(* fails.                                                                  *)
(***************************************************************************)
\* a world of the category extractors: latest.json does not exist
TwiceExtractWorld(answer, secondary) ==
    [files |-> [n \in FileNames |-> IF n = "latest.json" THEN Absent ELSE OldDoc],
     upstream |-> Upstream(1, [c \in Collections |-> answer], secondary)]

\* a world of the hypoxia update: stations w, discovery and the rest down
TwiceHypoxiaWorld(w) ==
    [files |-> [n \in FileNames |-> IF n = "latest.json" THEN LatestOf(w) ELSE OldDoc],
     upstream |->
        [Upstream(1, [c \in Collections |-> [kind |-> "failed", features |-> <<>>]],
                  SecondaryDown)
           EXCEPT !.ocean = [sid \in {StationId(i) : i \in 1..Len(w)} |->
                                w[CHOOSE i \in 1..Len(w) : StationId(i) = sid].ocean],
                  !.txt = [sid \in {StationId(i) : i \in 1..Len(w)} |->
                                w[CHOOSE i \in 1..Len(w) : StationId(i) = sid].txt]]]

TwiceWorlds ==
    {TwiceExtractWorld(answer, secondary) :
        answer \in DiscoveryAnswers, secondary \in {SecondaryDown, SecondaryUp}}
    \cup {TwiceHypoxiaWorld(w) : w \in StationWorlds}

InitTwice ==
    /\ pc = "start"
    /\ \E world \in TwiceWorlds : files = world.files /\ upstream = world.upstream
    /\ requests = <<>>
    /\ result = [fn |-> "", file |-> "", after |-> <<>>]
    /\ before = files

\* a run of extractor fn, the first or the second of the same extractor
TwiceStep(fn, name, out) ==
    /\ pc \in {"start", "once"}
    /\ pc = "once" => result.fn = fn
    /\ pc' = IF pc = "start" THEN "once" ELSE "twice"
    /\ files' = [files EXCEPT ![name] = out.file]
    /\ requests' = out.requests
    /\ result' = [fn |-> fn, file |-> name, after |-> Append(result.after, out.file)]
    /\ upstream' = [upstream EXCEPT !.now = @ + 1]
    /\ UNCHANGED before

TwiceUpdateNdbcHypoxia ==
    TwiceStep("update_ndbc_hypoxia", "latest.json",
              UpdateNdbcHypoxia(files["latest.json"], upstream, "none"))

TwiceUpdateCurrents ==
    TwiceStep("update_currents", "currents.json",
              UpdateCurrents(files["currents.json"], upstream, "none"))

TwiceUpdateIoosSensors ==
    TwiceStep("update_ioos_sensors", "ioos_sensors.json",
              UpdateIoosSensors(files["ioos_sensors.json"], upstream, "none"))

TwiceUpdateNdbcMet ==
    TwiceStep("update_ndbc_met", "ndbc_met.json",
              UpdateNdbcMet(files["ndbc_met.json"], upstream, "none"))

TwiceUpdateCoops ==
    TwiceStep("update_coops", "coops.json",
              UpdateCoops(files["coops.json"], upstream, "none"))

TwiceUpdateGliders ==
    TwiceStep("update_gliders", "gliders.json",
              UpdateGliders(files["gliders.json"], upstream, "none"))

TwiceUpdateDrifters ==
    TwiceStep("update_drifters", "drifters.json",
              UpdateDrifters(files["drifters.json"], upstream, "none"))

TwiceUpdateIncidents ==
    TwiceStep("update_incidents", "incidents.json",
              UpdateIncidents(files["incidents.json"], upstream, "none"))

TwiceUpdatePmel ==
    TwiceStep("update_pmel", "pmel.json",
              UpdatePmel(files["pmel.json"], upstream, "none"))

NextTwice ==
    \/ TwiceUpdateNdbcHypoxia
    \/ TwiceUpdateCurrents
    \/ TwiceUpdateIoosSensors
    \/ TwiceUpdateNdbcMet
    \/ TwiceUpdateCoops
    \/ TwiceUpdateGliders
    \/ TwiceUpdateDrifters
    \/ TwiceUpdateIncidents
    \/ TwiceUpdatePmel

SpecTwice == InitTwice /\ [][NextTwice]_vars

\* two files that differ in nothing but the `updated` of their documents
SameButUpdated(f, g) ==
    /\ f.kind = g.kind
    /\ IF f.kind = "doc"
       THEN [f.doc EXCEPT !.updated = 0] = [g.doc EXCEPT !.updated = 0]
       ELSE f = g

\* C16: after the second of two runs of an extractor against the same
\* upstream answers the output file is what it was after the first run,
\* `updated` apart; for the hypoxia update no station's `current` changes.
C16_SecondRunChangesOnlyUpdated ==
    pc = "twice" => SameButUpdated(result.after[1], result.after[2])

\* two hypoxia runs of which the first changed a station's `current`
C16_Witness ==
    /\ pc = "twice"
    /\ result.fn = "update_ndbc_hypoxia"
    /\ result.after[1].kind = "doc"
    /\ result.after[1].doc.stations # before["latest.json"].doc.stations
    /\ result.after[2].doc.updated = 2

(***************************************************************************)
(* SpecFrame: a sequence of hypoxia updates of one latest.json, each by    *)
(* update_data.update_ndbc_hypoxia or by update_stations.main, each with   *)
(* its own feed outcomes per station.                                      *)
(***************************************************************************)
MaxRuns == 2

\* update_stations.main(): [raised, file, currents]; up.ocean and up.txt
\* hold the response of each station's request, up.currents that of the
\* currents request
StationsMain(old, oldCurrents, up, fault) ==
    IF old.kind = "absent"
    THEN [raised |-> FALSE, file |-> old, currents |-> oldCurrents]
    ELSE IF old.kind # "doc"
    THEN [raised |-> TRUE, file |-> old, currents |-> oldCurrents]
    ELSE IF \E i \in 1..Len(old.doc.stations) :
               UpdateStation(up.ocean[old.doc.stations[i].id],
                             up.txt[old.doc.stations[i].id]).raised
    THEN [raised |-> TRUE, file |-> old, currents |-> oldCurrents]
    ELSE IF fault # "none"
    THEN [raised |-> TRUE, file |-> WriteFile(old, old.doc, fault).file,
          currents |-> oldCurrents]
    ELSE [raised |-> StationsFetchUrl(up.currents).raised,
          file |-> DocFile(
             [old.doc EXCEPT
                !.updated = up.now,
                !.stations = [i \in 1..Len(old.doc.stations) |->
                    StationAfter(old.doc.stations[i],
                        UpdateStation(up.ocean[old.doc.stations[i].id],
                                      up.txt[old.doc.stations[i].id]).value)]]),
          currents |->
             IF StationsFetchUrl(up.currents).raised
                \/ IsNone(StationsFetchUrl(up.currents).value)
                \/ Get(StationsFetchUrl(up.currents).value) = ""
             THEN oldCurrents
             ELSE RawFile(Get(StationsFetchUrl(up.currents).value))]

\* what update_data's fetch_url hands update_ndbc_hypoxia for the responses
Fetched(up) ==
    [now |-> up.now,
     ocean |-> [sid \in DOMAIN up.ocean |-> FetchUrl(up.ocean[sid]).value],
     txt |-> [sid \in DOMAIN up.txt |-> FetchUrl(up.txt[sid]).value]]

\* the outcomes of one station's two requests in one run
FeedGood ==
    [ocean |-> Answer(Get(OceanText(ValuesRow(OceanHeader, DateLater,
                      "O2PPM" :> "6.5" @@ "OTMP" :> "22.5")))),
     txt |-> Failure("URLError")]

FeedFallback ==
    [ocean |-> Failure("HTTPError"),
     txt |-> Answer(Get(MetText(ValuesRow(MetHeader, DateGood, "WTMP" :> "19.5"))))]

FeedOutcomes ==
    { FeedGood, FeedFallback,
      [ocean |-> Answer(Get(OceanText(ValuesRow(OceanHeader, DateGood, EmptyDict)))),
       txt |-> Answer(Get(MetText(ValuesRow(MetHeader, DateGood, "WTMP" :> "19.5"))))],
      [ocean |-> Failure("HTTPError"), txt |-> Failure("TimeoutError")],
      [ocean |-> Failure("IncompleteRead"),
       txt |-> Answer(Get(MetText(ValuesRow(MetHeader, DateGood, "WTMP" :> "18.0"))))] }

CurrentsOutcomes == {Answer("{\"table\": {}}"), Failure("InvalidURL")}

\* the station lists latest.json starts with
FrameStations ==
    {<<>>}
    \cup {<<[current |-> c]>> : c \in Currents}
    \cup {<<[current |-> c], [current |-> DictCurrent("temp" :> 20000)]>> :
             c \in {NoCurrent, NullCurrent}}

InitFrame ==
    /\ pc = "running"
    /\ \E latest \in {Absent, Truncated} \cup {LatestOf(w) : w \in FrameStations} :
          files = [n \in FileNames |-> IF n = "latest.json" THEN latest ELSE Absent]
    /\ upstream = [now |-> 0]
    /\ requests = <<>>
    /\ result = [runs |-> 0, fn |-> "", raised |-> FALSE, torn |-> FALSE]
    /\ before = files

\* the station ids of a latest.json
IdsOf(file) ==
    IF file.kind = "doc"
    THEN {file.doc.stations[i].id : i \in 1..Len(file.doc.stations)}
    ELSE {}

\* update_ndbc_hypoxia leaves currents.json alone
WithCurrents(out, currents) ==
    [raised |-> out.raised, file |-> out.file, currents |-> currents]

\* the responses of a run: the first station's requests take every outcome,
\* the further ones the first two
RunFeeds(ids) ==
    {feeds \in [ids -> FeedOutcomes] :
        \A sid \in ids \ {StationId(1)} : feeds[sid] \in {FeedGood, FeedFallback}}

\* one more run: its responses `up`, its outcome `out`; torn records that a
\* json.dump has failed after the file was opened for writing
FrameStep(fn, up, fault, out) ==
    /\ pc = "running"
    /\ pc' = IF result.runs + 1 = MaxRuns THEN "done" ELSE "running"
    /\ upstream' = [now |-> up.now]
    /\ requests' = <<>>
    /\ result' = [runs |-> result.runs + 1, fn |-> fn, raised |-> out.raised,
                  torn |-> result.torn \/ (fault = "dump" /\ files["latest.json"].kind = "doc"
                                                /\ out.file.kind = "truncated")]
    /\ files' = [files EXCEPT !["latest.json"] = out.file,
                               !["currents.json"] = out.currents]
    /\ UNCHANGED before

FrameUpdateNdbcHypoxia ==
    \E feeds \in RunFeeds(IdsOf(files["latest.json"])),
       fault \in {"none", "open", "dump"} :
        LET up == [now |-> upstream.now + 1,
                   ocean |-> [sid \in DOMAIN feeds |-> feeds[sid].ocean],
                   txt |-> [sid \in DOMAIN feeds |-> feeds[sid].txt]]
        IN FrameStep("update_ndbc_hypoxia", up, fault,
                     WithCurrents(UpdateNdbcHypoxia(files["latest.json"], Fetched(up), fault),
                                  files["currents.json"]))

FrameStationsMain ==
    \E feeds \in RunFeeds(IdsOf(files["latest.json"])),
       currents \in CurrentsOutcomes,
       fault \in {"none", "open", "dump"} :
        LET up == [now |-> upstream.now + 1,
                   ocean |-> [sid \in DOMAIN feeds |-> feeds[sid].ocean],
                   txt |-> [sid \in DOMAIN feeds |-> feeds[sid].txt],
                   currents |-> currents]
        IN FrameStep("update_stations.main", up, fault,
                     StationsMain(files["latest.json"], files["currents.json"], up, fault))

NextFrame == FrameUpdateNdbcHypoxia \/ FrameStationsMain

SpecFrame == InitFrame /\ [][NextFrame]_vars

\* the keys of a station's `current` (none when it is absent or null)
CurrentKeys(station) == DOMAIN station.current.dict

\* a station with its `current` left out
OtherFields(station) == [f \in DOMAIN station \ {"current"} |-> station[f]]

\* what a run may do to latest.json: nothing to a file that does not exist;
\* to a document, keep the stations and their fields, add or overwrite keys
\* of `current`, and set `updated`
FrameKept(old, new, now, raised) ==
    /\ old.kind = "absent" => new.kind = "absent"
    /\ old.kind = "doc" =>
         /\ new.kind = "doc"
         /\ DOMAIN new.doc = DOMAIN old.doc
         /\ Len(new.doc.stations) = Len(old.doc.stations)
         /\ \A i \in 1..Len(old.doc.stations) :
               /\ OtherFields(new.doc.stations[i]) = OtherFields(old.doc.stations[i])
               /\ CurrentKeys(old.doc.stations[i]) \subseteq CurrentKeys(new.doc.stations[i])
         /\ new.doc.updated = now \/ (raised /\ new = old)

====
